---------------------------- MODULE Spec2Model ----------------------------
(***************************************************************************)
(* Model of reminty (ha1tch/reminty): the tokenizer (internal/parser/      *)
(* lexer.go), the structural parser and the regex-driven variable          *)
(* extraction (internal/parser/ast.go, second half) and the pattern        *)
(* detector (package patterns).                                            *)
(*                                                                         *)
(* Text is a sequence of one-character strings; Go's 0-based byte offsets  *)
(* are kept, so the byte at offset p of s is s[p + 1].                     *)
(***************************************************************************)
EXTENDS Integers, Sequences, FiniteSets, TLC

\* string(s) as a sequence of one-character strings
Chars(s) == [i \in 1..Len(s) |-> SubSeq(s, i, i)]

\* the last element of a sequence, the sequence without it, and with it replaced
Top(xs) == xs[Len(xs)]
Pop(xs) == SubSeq(xs, 1, Len(xs) - 1)
SetTop(xs, x) == [xs EXCEPT ![Len(xs)] = x]

Max(a, b) == IF a > b THEN a ELSE b
Min(a, b) == IF a < b THEN a ELSE b

\* s[from:to] of Go (0-based, to exclusive)
Slice(s, from, to) == SubSeq(s, from + 1, to)

\* s[from:] of Go
SliceFrom(s, from) == SubSeq(s, from + 1, Len(s))

\* the concatenation of the texts of a sequence
RECURSIVE Flatten(_)
Flatten(ts) == IF ts = <<>> THEN <<>> ELSE ts[1] \o Flatten(Tail(ts))

\* all sequences over set a of length at most n
SeqsUpTo(a, n) == UNION {[1..k -> a] : k \in 0..n}

-----------------------------------------------------------------------------
(* Character classes                                                        *)

Lower == {"a","b","c","d","e","f","g","h","i","j","k","l","m",
          "n","o","p","q","r","s","t","u","v","w","x","y","z"}
Upper == {"A","B","C","D","E","F","G","H","I","J","K","L","M",
          "N","O","P","Q","R","S","T","U","V","W","X","Y","Z"}
Digit == {"0","1","2","3","4","5","6","7","8","9"}

\* unicode.IsSpace on the ASCII range (\v has no TLA+ literal)
IsSpace(ch) == ch \in {" ", "\t", "\n", "\r", "\f"}

\* the opening quotes of scanString; the back quote, which lexer.go treats
\* exactly like the other two, has no TLA+ string literal
IsQuote(ch) == ch \in {"\"", "'"}

isIdentStart(ch) == ch \in Lower \cup Upper \cup {"_", "$"}

isIdentChar(ch) == isIdentStart(ch) \/ ch \in Digit \/ ch = "-"

-----------------------------------------------------------------------------
(* Lexer (lexer.go).  A lexer value is [pos, line, column, tokens]; the     *)
(* input is passed alongside because nested parses lex other texts.        *)

NewLexer == [pos |-> 0, line |-> 1, column |-> 1, tokens |-> <<>>]

\* Lexer.peek: 0 (here "") at end of input
peek(inp, l) == IF l.pos >= Len(inp) THEN "" ELSE inp[l.pos + 1]

peekN(inp, l, n) == Slice(inp, l.pos, Min(l.pos + n, Len(inp)))

\* Lexer.advance: a no-op at end of input
advanceL(inp, l) ==
    IF l.pos >= Len(inp) THEN l
    ELSE IF inp[l.pos + 1] = "\n"
         THEN [l EXCEPT !.pos = @ + 1, !.line = @ + 1, !.column = 1]
         ELSE [l EXCEPT !.pos = @ + 1, !.column = @ + 1]

advanceN(inp, l, n) ==
    IF n = 1 THEN advanceL(inp, l)
    ELSE IF n = 2 THEN advanceL(inp, advanceL(inp, l))
    ELSE advanceL(inp, advanceL(inp, advanceL(inp, l)))

\* emit recording no offset
emit_ZeroOffset(l, typ, value) ==
    [l EXCEPT !.tokens = Append(@, [type |-> typ, value |-> value,
                                    line |-> l.line, column |-> l.column,
                                    offset |-> 0])]

\* Lexer.emit: line, column and offset are those of the cursor at emit time
emit(l, typ, value) ==
    [l EXCEPT !.tokens = Append(@, [type |-> typ, value |-> value,
                                    line |-> l.line, column |-> l.column,
                                    offset |-> l.pos])]

RECURSIVE wsEnd(_, _)
wsEnd(inp, l) ==
    IF l.pos < Len(inp) /\ IsSpace(peek(inp, l)) THEN wsEnd(inp, advanceL(inp, l)) ELSE l

scanWhitespace(inp, l) ==
    LET e == wsEnd(inp, l) IN emit(e, "Whitespace", Slice(inp, l.pos, e.pos))

\* the value of a String token: the text between the quotes
stringValue(inp, start, l) == Slice(inp, start, l.pos)

\* scanString emitting what it consumed as a String when the input ends
RECURSIVE strLoop_NoError(_, _, _, _)
strLoop_NoError(inp, l, quote, start) ==
    IF l.pos >= Len(inp) THEN emit(l, "String", stringValue(inp, start, l))
    ELSE IF peek(inp, l) = "\\" THEN strLoop_NoError(inp, advanceN(inp, l, 2), quote, start)
    ELSE IF peek(inp, l) = quote
         THEN emit(advanceL(inp, l), "String", stringValue(inp, start, l))
    ELSE strLoop_NoError(inp, advanceL(inp, l), quote, start)

RECURSIVE strLoop(_, _, _, _)
strLoop(inp, l, quote, start) ==
    IF l.pos >= Len(inp) THEN emit(l, "Error", Chars("unterminated string"))
    ELSE IF peek(inp, l) = "\\" THEN strLoop(inp, advanceN(inp, l, 2), quote, start)
    ELSE IF peek(inp, l) = quote
         THEN emit(advanceL(inp, l), "String", stringValue(inp, start, l))
    ELSE strLoop(inp, advanceL(inp, l), quote, start)

scanString(inp, l, quote) ==
    LET o == advanceL(inp, l) IN strLoop(inp, o, quote, o.pos)

\* the characters a numeric literal continues over
isNumberChar(ch) == ch \in Digit \/ ch = "."

RECURSIVE numEnd(_, _)
numEnd(inp, l) ==
    IF l.pos < Len(inp) /\ isNumberChar(peek(inp, l)) THEN numEnd(inp, advanceL(inp, l)) ELSE l

scanNumber(inp, l) ==
    LET e == numEnd(inp, l) IN emit(e, "Number", Slice(inp, l.pos, e.pos))

RECURSIVE identEnd(_, _)
identEnd(inp, l) ==
    IF l.pos < Len(inp) /\ isIdentChar(peek(inp, l)) THEN identEnd(inp, advanceL(inp, l)) ELSE l

scanIdent(inp, l) ==
    LET e == identEnd(inp, l)
        value == Slice(inp, l.pos, e.pos)
    IN  IF value = Chars("true") THEN emit(e, "True", value)
        ELSE IF value = Chars("false") THEN emit(e, "False", value)
        ELSE IF value = Chars("null") THEN emit(e, "Null", value)
        ELSE IF value = Chars("undefined") THEN emit(e, "Undefined", value)
        ELSE emit(e, "Ident", value)

\* advance over n characters and emit their text as one token
punct(inp, l, n, typ) == emit(advanceN(inp, l, n), typ, Slice(inp, l.pos, l.pos + n))

scanToken(inp, l) ==
    LET ch == peek(inp, l) IN
    IF IsSpace(ch) THEN scanWhitespace(inp, l)
    ELSE IF ch = "{" THEN punct(inp, l, 1, "JSXExprOpen")
    ELSE IF ch = "}" THEN punct(inp, l, 1, "JSXExprClose")
    ELSE IF ch = "<" THEN
        IF peekN(inp, l, 2) = Chars("</") THEN punct(inp, l, 2, "TagEnd")
        ELSE punct(inp, l, 1, "TagOpen")
    ELSE IF peekN(inp, l, 2) = Chars("/>") THEN punct(inp, l, 2, "TagSelfClose")
    ELSE IF ch = ">" THEN punct(inp, l, 1, "TagClose")
    ELSE IF ch = "=" THEN
        IF peekN(inp, l, 2) = Chars("=>") THEN punct(inp, l, 2, "Arrow")
        ELSE punct(inp, l, 1, "Equals")
    ELSE IF ch = "." THEN
        IF peekN(inp, l, 3) = Chars("...") THEN punct(inp, l, 3, "Spread")
        ELSE punct(inp, l, 1, "Dot")
    ELSE IF ch = "(" THEN punct(inp, l, 1, "LParen")
    ELSE IF ch = ")" THEN punct(inp, l, 1, "RParen")
    ELSE IF ch = "," THEN punct(inp, l, 1, "Comma")
    ELSE IF ch = ":" THEN punct(inp, l, 1, "Colon")
    ELSE IF ch = "?" THEN punct(inp, l, 1, "Question")
    ELSE IF peekN(inp, l, 2) = Chars("&&") THEN punct(inp, l, 2, "AmpAmp")
    ELSE IF peekN(inp, l, 2) = Chars("||") THEN punct(inp, l, 2, "PipePipe")
    ELSE IF IsQuote(ch) THEN scanString(inp, l, ch)
    ELSE IF ch \in Digit THEN scanNumber(inp, l)
    ELSE IF isIdentStart(ch) THEN scanIdent(inp, l)
    ELSE punct(inp, l, 1, "Text")

RECURSIVE tokenizeFrom(_, _)
tokenizeFrom(inp, l) ==
    IF l.pos < Len(inp) THEN tokenizeFrom(inp, scanToken(inp, l))
    ELSE emit(l, "EOF", <<>>).tokens

\* Lexer.Tokenize on a fresh lexer
Tokenize(inp) == tokenizeFrom(inp, NewLexer)

\* concatenation of the Value of every token, in order
RECURSIVE ConcatValues(_)
ConcatValues(toks) ==
    IF toks = <<>> THEN <<>> ELSE toks[1].value \o ConcatValues(Tail(toks))

-----------------------------------------------------------------------------
(* Strings helpers of Go's strings package                                  *)

LowerSeq == Chars("abcdefghijklmnopqrstuvwxyz")
UpperSeq == Chars("ABCDEFGHIJKLMNOPQRSTUVWXYZ")

ToLowerCh(ch) ==
    IF ch \in Upper THEN LowerSeq[CHOOSE k \in 1..26 : UpperSeq[k] = ch] ELSE ch

ToUpperCh(ch) ==
    IF ch \in Lower THEN UpperSeq[CHOOSE k \in 1..26 : LowerSeq[k] = ch] ELSE ch

\* strings.ToLower
ToLower(s) == [i \in 1..Len(s) |-> ToLowerCh(s[i])]

\* strings.HasPrefix applied to s[at:]
HasPrefixAt(s, at, pre) ==
    at + Len(pre) <= Len(s) /\ Slice(s, at, at + Len(pre)) = pre

HasPrefix(s, pre) == HasPrefixAt(s, 0, pre)

HasSuffix(s, suf) == Len(suf) <= Len(s) /\ SliceFrom(s, Len(s) - Len(suf)) = suf

\* strings.Contains
Contains(s, sub) == \E at \in 0..Len(s) : HasPrefixAt(s, at, sub)

\* strings.Count(s, "\n")
CountNewlines(s) == Cardinality({i \in 1..Len(s) : s[i] = "\n"})

RECURSIVE TrimLeftSet(_, _)
TrimLeftSet(s, cut) ==
    IF s # <<>> /\ s[1] \in cut THEN TrimLeftSet(Tail(s), cut) ELSE s

RECURSIVE TrimRightSet(_, _)
TrimRightSet(s, cut) ==
    IF s # <<>> /\ s[Len(s)] \in cut THEN TrimRightSet(SubSeq(s, 1, Len(s) - 1), cut) ELSE s

SpaceChars == {" ", "\t", "\n", "\r", "\f"}

\* strings.TrimSpace
TrimSpace(s) == TrimRightSet(TrimLeftSet(s, SpaceChars), SpaceChars)

-----------------------------------------------------------------------------
(* Regular expressions (Go regexp: the leftmost match, and among the        *)
(* matches at that offset the one a backtracking search prefers).  A regex  *)
(* is a tree of records.  Ends is the set of offsets at which a match begun *)
(* at an offset can end; Pick walks the regex and at every choice takes the *)
(* preferred alternative from which the rest can still match, recording the *)
(* capture groups.                                                          *)

RSet(set) == [op |-> "set", set |-> set]
RNot(set) == [op |-> "nset", set |-> set]
RCh(ch) == RSet({ch})
RSeq(rs) == [op |-> "seq", rs |-> rs]
RAlt(rs) == [op |-> "alt", rs |-> rs]
RRep(r, min, max, greedy) ==
    [op |-> "rep", r |-> r, min |-> min, max |-> max, greedy |-> greedy, cnt |-> 0]
RStar(r) == RRep(r, 0, -1, TRUE)
RPlus(r) == RRep(r, 1, -1, TRUE)
RLazyPlus(r) == RRep(r, 1, -1, FALSE)
ROpt(r) == RRep(r, 0, 1, TRUE)
RCap(n, r) == [op |-> "cap", n |-> n, r |-> r]
RBol == [op |-> "bol"]

\* a literal, and a literal under (?i)
RLit(str) == [op |-> "lit", str |-> Chars(str), fold |-> FALSE]
RLitI(str) == [op |-> "lit", str |-> ToLower(Chars(str)), fold |-> TRUE]

WordChars == Lower \cup Upper \cup Digit \cup {"_"}
RW == RSet(WordChars)          \* \w
RS == RSet(SpaceChars)         \* \s
RDot == RNot({"\n"})           \* .
RQuote == RSet({"\"", "'"})    \* ["']

MaxCaps == 3
NoCaps == [n \in 1..MaxCaps |-> <<-1, -1>>]

IsClass(r) == r.op \in {"set", "nset"}

ClassHit(r, ch) == IF r.op = "set" THEN ch \in r.set ELSE ch \notin r.set

LitHit(r, s, i) ==
    /\ i + Len(r.str) <= Len(s)
    /\ LET t == Slice(s, i, i + Len(r.str))
       IN  IF r.fold THEN ToLower(t) = r.str ELSE t = r.str

\* the length of the longest run of class r starting at offset i
RunLen(r, s, i) ==
    CHOOSE k \in 0..(Len(s) - i) :
        /\ \A j \in 1..k : ClassHit(r, s[i + j])
        /\ (i + k = Len(s) \/ ~ClassHit(r, s[i + k + 1]))

\* the repetition counts a class repetition may take at offset i
RepCounts(r, s, i) ==
    LET run == RunLen(r.r, s, i)
        top == IF r.max = -1 THEN run ELSE Min(run, r.max - r.cnt)
    IN  (Max(r.min - r.cnt, 0))..top

RECURSIVE Ends(_, _, _)
RECURSIVE EndsTodo(_, _, _, _)
RECURSIVE EndsRep(_, _, _, _)

EndsTodo(todo, k, s, I) ==
    IF k > Len(todo) \/ I = {} THEN I
    ELSE EndsTodo(todo, k + 1, s, UNION {Ends(todo[k], s, i) : i \in I})

\* a repetition of a compound body (which never matches the empty text)
EndsRep(r, s, I, n) ==
    IF I = {} THEN {}
    ELSE (IF n >= r.min THEN I ELSE {})
         \cup (IF r.max # -1 /\ n >= r.max THEN {}
               ELSE EndsRep(r, s, UNION {Ends(r.r, s, i) : i \in I}, n + 1))

Ends(r, s, i) ==
    CASE IsClass(r) -> IF i < Len(s) /\ ClassHit(r, s[i + 1]) THEN {i + 1} ELSE {}
      [] r.op = "lit" -> IF LitHit(r, s, i) THEN {i + Len(r.str)} ELSE {}
      [] r.op = "bol" -> IF i = 0 THEN {i} ELSE {}
      [] r.op \in {"open", "close"} -> {i}
      [] r.op = "seq" -> EndsTodo(r.rs, 1, s, {i})
      [] r.op = "alt" -> UNION {Ends(r.rs[k], s, i) : k \in 1..Len(r.rs)}
      [] r.op = "cap" -> Ends(r.r, s, i)
      [] r.op = "rep" ->
            IF IsClass(r.r) THEN {i + k : k \in RepCounts(r, s, i)}
            ELSE EndsRep(r, s, {i}, r.cnt)

\* the regexes of todo can match one after the other from offset i
CanMatch(todo, s, i) == EndsTodo(todo, 1, s, {i}) # {}

MaxOf(S) == CHOOSE x \in S : \A y \in S : y <= x
MinOf(S) == CHOOSE x \in S : \A y \in S : x <= y

RECURSIVE Pick(_, _, _, _)
Pick(todo, s, i, c) ==
    IF todo = <<>> THEN [e |-> i, c |-> c]
    ELSE LET h == Head(todo)
             rest == Tail(todo)
         IN  CASE IsClass(h) -> Pick(rest, s, i + 1, c)
               [] h.op = "lit" -> Pick(rest, s, i + Len(h.str), c)
               [] h.op = "bol" -> Pick(rest, s, i, c)
               [] h.op = "open" -> Pick(rest, s, i, [c EXCEPT ![h.n] = <<i, -1>>])
               [] h.op = "close" -> Pick(rest, s, i, [c EXCEPT ![h.n] = <<@[1], i>>])
               [] h.op = "seq" -> Pick(h.rs \o rest, s, i, c)
               [] h.op = "cap" ->
                    Pick(<<[op |-> "open", n |-> h.n], h.r, [op |-> "close", n |-> h.n]>>
                         \o rest, s, i, c)
               [] h.op = "alt" ->
                    LET k == MinOf({j \in 1..Len(h.rs) : CanMatch(<<h.rs[j]>> \o rest, s, i)})
                    IN  Pick(<<h.rs[k]>> \o rest, s, i, c)
               [] h.op = "rep" ->
                    IF IsClass(h.r)
                    THEN LET ks == {k \in RepCounts(h, s, i) : CanMatch(rest, s, i + k)}
                         IN  Pick(rest, s, i + (IF h.greedy THEN MaxOf(ks) ELSE MinOf(ks)), c)
                    ELSE LET more == <<h.r, [h EXCEPT !.cnt = @ + 1]>> \o rest
                             canMore == (h.max = -1 \/ h.cnt < h.max) /\ CanMatch(more, s, i)
                             canStop == h.cnt >= h.min /\ CanMatch(rest, s, i)
                         IN  IF (h.greedy /\ canMore) \/ ~canStop
                             THEN Pick(more, s, i, c) ELSE Pick(rest, s, i, c)

\* the match starting exactly at offset i: [ok, s (start), e (end), c (groups)]
NoMatch == [ok |-> FALSE, s |-> -1, e |-> -1, c |-> NoCaps]

Matched(i, m) == [ok |-> TRUE, s |-> i, e |-> m.e, c |-> m.c]

MatchAt(re, s, i) ==
    IF ~CanMatch(<<re>>, s, i) THEN NoMatch ELSE Matched(i, Pick(<<re>>, s, i, NoCaps))

\* the leftmost match starting at or after offset from
MatchFirst(re, s, starts) ==
    IF starts = {} THEN NoMatch ELSE MatchAt(re, s, MinOf(starts))

FindFrom(re, s, from) ==
    MatchFirst(re, s, {i \in from..Len(s) : CanMatch(<<re>>, s, i)})

\* Regexp.FindStringIndex / FindStringSubmatch
Find(re, s) == FindFrom(re, s, 0)

\* Regexp.FindAllStringSubmatchIndex(s, -1): successive non-overlapping matches
RECURSIVE FindAllFrom(_, _, _)

\* the match m and the matches after it
FindAllAfter(re, s, m) ==
    IF ~m.ok THEN <<>>
    ELSE <<m>> \o FindAllFrom(re, s, IF m.e > m.s THEN m.e ELSE m.e + 1)

FindAllFrom(re, s, from) == FindAllAfter(re, s, FindFrom(re, s, from))

FindAll(re, s) == FindAllFrom(re, s, 0)

\* the text of group n of match m
Group(s, m, n) == IF m.c[n][1] < 0 THEN <<>> ELSE Slice(s, m.c[n][1], m.c[n][2])

-----------------------------------------------------------------------------
(* Variable extraction (ast.go, extractUseStateVars .. findMatchingParen)    *)

\* const\s+\[(\w+),\s*(\w+)\]\s*=\s*useState(?:<[^>]+>)?\s*\(([^)]*)\)
useStatePattern ==
    RSeq(<<RLit("const"), RPlus(RS), RCh("["), RCap(1, RPlus(RW)), RCh(","), RStar(RS),
           RCap(2, RPlus(RW)), RCh("]"), RStar(RS), RCh("="), RStar(RS), RLit("useState"),
           ROpt(RSeq(<<RCh("<"), RPlus(RNot({">"})), RCh(">")>>)), RStar(RS),
           RCh("("), RCap(3, RStar(RNot({")"}))), RCh(")")>>)

\* some way of matching re at offset 0 covers the whole of s
FullMatch(re, s) == Len(s) \in Ends(re, s, 0)

RDigits == RPlus(RSet(Digit))
RSign == ROpt(RSet({"+", "-"}))

\* strconv.Atoi succeeds (values beyond the int range are out of the texts modelled)
IsAtoi(s) == FullMatch(RSeq(<<RSign, RDigits>>), s)

\* strconv.ParseFloat(s, 64) succeeds: decimal forms, infinities and NaN
\* (hexadecimal floats are outside the texts modelled)
IsParseFloat(s) ==
    \/ FullMatch(RSeq(<<RSign,
                        RAlt(<<RSeq(<<RDigits, ROpt(RSeq(<<RCh("."), RStar(RSet(Digit))>>))>>),
                               RSeq(<<RCh("."), RDigits>>)>>),
                        ROpt(RSeq(<<RSet({"e", "E"}), RSign, RDigits>>))>>), s)
    \/ FullMatch(RSeq(<<RSign, RAlt(<<RLitI("infinity"), RLitI("inf")>>)>>), s)
    \/ FullMatch(RLitI("nan"), s)

isSimpleIdent(s) ==
    /\ s # <<>>
    /\ s[1] \in Lower \cup Upper \cup {"_", "$"}
    /\ \A i \in 2..Len(s) : s[i] \in Lower \cup Upper \cup Digit \cup {"_", "$"}

TString == "string"
TBool == "bool"
TInt == "int"
TFloat == "float64"
TArray == "[]interface{}"
TObject == "map[string]interface{}"
TUnknown == "interface{}"

\* a quoted string: the same quote character at both ends (the back quote,
\* third in the source, has no TLA+ literal)
isQuoted(val) ==
    \/ HasPrefix(val, Chars("\"")) /\ HasSuffix(val, Chars("\""))
    \/ HasPrefix(val, Chars("'")) /\ HasSuffix(val, Chars("'"))

inferTypeFromValue(v) ==
    LET val == TrimSpace(v)
        lowerVal == ToLower(val)
    IN  IF val = <<>> \/ val = Chars("\"\"") \/ val = Chars("''") THEN TString
        ELSE IF isQuoted(val) THEN TString
        ELSE IF val = Chars("true") \/ val = Chars("false") THEN TBool
        ELSE IF IsAtoi(val) THEN TInt
        ELSE IF IsParseFloat(val) THEN TFloat
        ELSE IF HasPrefix(val, Chars("[")) THEN TArray
        ELSE IF HasPrefix(val, Chars("{")) THEN TObject
        ELSE IF val = Chars("null") \/ val = Chars("undefined") THEN TUnknown
        ELSE IF /\ HasSuffix(lowerVal, Chars("s")) /\ ~HasSuffix(lowerVal, Chars("ss"))
                /\ Len(lowerVal) > 3 /\ isSimpleIdent(val) THEN TArray
        ELSE IF \/ Contains(lowerVal, Chars("items")) \/ Contains(lowerVal, Chars("list"))
                \/ Contains(lowerVal, Chars("data")) \/ Contains(lowerVal, Chars("array"))
             THEN TArray
        ELSE TUnknown

\* the line of offset at: 1 + strings.Count(source[:at], "\n")
LineOf(source, at) == 1 + CountNewlines(Slice(source, 0, at))

\* stateVarOf with the line counted from 0
stateVarOf_ZeroBasedLine(source, m) ==
    LET initValue == TrimSpace(Group(source, m, 3))
    IN  [Name |-> Group(source, m, 1),
         Setter |-> Group(source, m, 2),
         InitValue |-> initValue,
         InitType |-> inferTypeFromValue(initValue),
         LineNumber |-> CountNewlines(Slice(source, 0, m.s))]

\* the StateVariable built from one match of useStatePattern
stateVarOf(source, m) ==
    LET initValue == TrimSpace(Group(source, m, 3))
    IN  [Name |-> Group(source, m, 1),
         Setter |-> Group(source, m, 2),
         InitValue |-> initValue,
         InitType |-> inferTypeFromValue(initValue),
         LineNumber |-> LineOf(source, m.s)]

stateVarsOf(source, ms) == [k \in 1..Len(ms) |-> stateVarOf(source, ms[k])]

extractUseStateVars(source) == stateVarsOf(source, FindAll(useStatePattern, source))

\* the number of offsets in [from, to) of s holding a character of set
CountIn(s, from, to, set) == Cardinality({i \in from..(to - 1) : s[i + 1] \in set})

\* findMatchingParen: depth starts at 1 at offset start, "(" raises it and
\* ")" lowers it; the result is the offset after the first ")" that lowers
\* it to 0, or -1 when there is none
findMatchingParen(s, start) ==
    LET closing == {i \in start..(Len(s) - 1) :
                      /\ s[i + 1] = ")"
                      /\ 1 + CountIn(s, start, i, {"("}) - CountIn(s, start, i + 1, {")"}) = 0}
    IN  IF closing = {} THEN -1 ELSE MinOf(closing) + 1

\* const\s+(\w+)\s*=\s*(\w+)\.OP\s*\(
derivedRegex(op) ==
    RSeq(<<RLit("const"), RPlus(RS), RCap(1, RPlus(RW)), RStar(RS), RCh("="), RStar(RS),
           RCap(2, RPlus(RW)), RCh("."), RLit(op), RStar(RS), RCh("(")>>)

\* the pattern table of extractDerivedVars, in source order
derivedPatterns ==
    <<[opType |-> "filter", resultType |-> TArray],
      [opType |-> "map", resultType |-> TArray],
      [opType |-> "find", resultType |-> TUnknown],
      [opType |-> "some", resultType |-> TBool],
      [opType |-> "every", resultType |-> TBool],
      [opType |-> "reduce", resultType |-> TUnknown],
      [opType |-> "sort", resultType |-> TArray],
      [opType |-> "slice", resultType |-> TArray]>>

\* the window in which a "[" makes extractDerivedVars skip a match
DestructureWindow == 20

\* the destructuring heuristic: "[" within the window before the match start
skipAsDestructuring(source, m) ==
    Contains(Slice(source, Max(0, m.s - DestructureWindow), m.s), Chars("["))

\* the source collection added to DependsOn whether or not it is a state
\* variable
dependsOn_AnySource(fullExpr, sourceName, stateNames) ==
    LET hit == {n \in stateNames : Contains(fullExpr, n)}
    IN  [n \in hit \cup {sourceName} |-> (IF n \in hit THEN 1 ELSE 0) + 1]

\* DependsOn is filled while ranging over a Go map, so its order is
\* unspecified: it is kept as a bag, name -> number of occurrences
dependsOn(fullExpr, sourceName, stateNames) ==
    LET hit == {n \in stateNames : Contains(fullExpr, n)}
        src == IF sourceName \in stateNames THEN {sourceName} ELSE {}
    IN  [n \in hit \cup src |-> (IF n \in hit THEN 1 ELSE 0) + (IF n \in src THEN 1 ELSE 0)]

derivedVarOf(source, m, pat, stateNames) ==
    LET sourceName == Group(source, m, 2)
        exprEnd == findMatchingParen(source, m.c[2][2])
        fullExpr == IF exprEnd > m.c[2][2] THEN Slice(source, m.s, exprEnd) ELSE <<>>
    IN  [Name |-> Group(source, m, 1),
         Expression |-> fullExpr,
         SourceVar |-> sourceName,
         Operation |-> pat.opType,
         ResultType |-> pat.resultType,
         DependsOn |-> dependsOn(fullExpr, sourceName, stateNames),
         LineNumber |-> LineOf(source, m.s)]

RECURSIVE derivedOfMatches(_, _, _, _)
derivedOfMatches(source, ms, pat, stateNames) ==
    IF ms = <<>> THEN <<>>
    ELSE (IF skipAsDestructuring(source, ms[1]) THEN <<>>
          ELSE <<derivedVarOf(source, ms[1], pat, stateNames)>>)
         \o derivedOfMatches(source, Tail(ms), pat, stateNames)

RECURSIVE derivedFromPattern(_, _, _)
derivedFromPattern(source, k, stateNames) ==
    IF k > Len(derivedPatterns) THEN <<>>
    ELSE derivedOfMatches(source, FindAll(derivedRegex(derivedPatterns[k].opType), source),
                          derivedPatterns[k], stateNames)
         \o derivedFromPattern(source, k + 1, stateNames)

extractDerivedVars(source, stateVars) ==
    derivedFromPattern(source, 1, {stateVars[k].Name : k \in 1..Len(stateVars)})

-----------------------------------------------------------------------------
(* Parser (ast.go, second half).  A parser value is                         *)
(* [tokens, pos, warnings, suggestions]; a nil Node is Nil.                 *)

Nil == [kind |-> "nil"]

NewParser(tokens) ==
    [tokens |-> tokens, pos |-> 0, warnings |-> <<>>, suggestions |-> <<>>]

\* Token{Type: TokenEOF}
EOFToken == [type |-> "EOF", value |-> <<>>, line |-> 0, column |-> 0, offset |-> 0]

\* Parser.current, for the cursor at q
tokenAt(P, q) == IF q >= Len(P.tokens) THEN EOFToken ELSE P.tokens[q + 1]

current(P) == tokenAt(P, P.pos)

\* Parser.isAtEnd, for the cursor at q
atEndAt(P, q) == q >= Len(P.tokens) \/ P.tokens[q + 1].type = "EOF"

isAtEnd(P) == atEndAt(P, P.pos)

advance(P) == IF isAtEnd(P) THEN P ELSE [P EXCEPT !.pos = @ + 1]

check(P, typ) == current(P).type = typ

checkIdent(P, value) == current(P).type = "Ident" /\ current(P).value = Chars(value)

\* Parser.match / matchIdent: the parser afterwards (the result is check's)
match(P, typ) == IF check(P, typ) THEN advance(P) ELSE P

matchIdent(P, value) == IF checkIdent(P, value) THEN advance(P) ELSE P

\* the cursor positions from the current one to the end of the tokens
Ahead(P) == P.pos..Len(P.tokens)

\* the number of tokens at positions from..to whose type is in types
CountTok(P, from, to, types) ==
    Cardinality({q \in from..to : tokenAt(P, q).type \in types})

\* the Values of the tokens at positions from..(to - 1), concatenated
ValuesOf(P, from, to) ==
    Flatten([k \in 1..(to - from) |-> tokenAt(P, from + k - 1).value])

skipWhitespace(P) ==
    [P EXCEPT !.pos = MinOf({q \in Ahead(P) : tokenAt(P, q).type # "Whitespace"})]

skipNonSignificantWhitespace(P) ==
    LET Skipped(q) ==
            /\ tokenAt(P, q).type = "Whitespace"
            /\ \/ ~Contains(tokenAt(P, q).value, <<"\n">>)
               \/ TrimSpace(tokenAt(P, q).value) = <<>>
    IN  skipWhitespace([P EXCEPT !.pos = MinOf({q \in Ahead(P) : ~Skipped(q)})])

StatementWords ==
    {Chars("import"), Chars("export"), Chars("function"), Chars("const"),
     Chars("let"), Chars("var"), Chars("class")}

skipToNextStatement(P) ==
    LET depth(q) == CountTok(P, P.pos, q, {"JSXExprOpen"})
                        - CountTok(P, P.pos, q, {"JSXExprClose"})
        Stop(q) ==
            \/ atEndAt(P, q)
            \/ tokenAt(P, q).type = "JSXExprClose" /\ depth(q) < 0
            \/ /\ depth(q) = 0
               /\ tokenAt(P, q).type = "Ident"
               /\ tokenAt(P, q).value \in StatementWords
    IN  [P EXCEPT !.pos = MinOf({q \in Ahead(P) : Stop(q)})]

addWarning(P, msg) ==
    [P EXCEPT !.warnings = Append(@, [Line |-> current(P).line,
                                      Column |-> current(P).column,
                                      Message |-> msg])]

addSuggestion(P, line, reactCode, mintyHint, patternType) ==
    [P EXCEPT !.suggestions = Append(@, [Line |-> line, ReactCode |-> reactCode,
                                         MintyHint |-> mintyHint,
                                         PatternType |-> patternType])]

\* the position at which a loop that counts braces from depth 1 stops: the
\* end of the tokens, or the closing brace that brings the depth to 0
closingBrace(P) ==
    LET depth(q) == 1 + CountTok(P, P.pos, q, {"JSXExprOpen"})
                      - CountTok(P, P.pos, q, {"JSXExprClose"})
    IN  MinOf({q \in Ahead(P) :
                  \/ atEndAt(P, q)
                  \/ tokenAt(P, q).type = "JSXExprClose" /\ depth(q) = 0})

\* parseExpressionContent leaving the closing brace unconsumed
parseExpressionContent_KeepBrace(P) ==
    LET q == closingBrace(P)
    IN  [P |-> [P EXCEPT !.pos = q],
         expr |-> [kind |-> "Expression",
                   Raw |-> TrimSpace(ValuesOf(P, P.pos, q)),
                   LineNumber |-> current(P).line]]

\* parseExpressionContent: [P, expr]
parseExpressionContent(P) ==
    LET q == closingBrace(P)
    IN  [P |-> [P EXCEPT !.pos = IF atEndAt(P, q) THEN q ELSE q + 1],
         expr |-> [kind |-> "Expression",
                   Raw |-> TrimSpace(ValuesOf(P, P.pos, q)),
                   LineNumber |-> current(P).line]]

\* parseText: [P, node]
parseText(P) ==
    LET q == MinOf({r \in Ahead(P) :
                       \/ atEndAt(P, r)
                       \/ tokenAt(P, r).type \in {"TagOpen", "TagEnd", "JSXExprOpen"}})
        text == TrimSpace(ValuesOf(P, P.pos, q))
    IN  [P |-> [P EXCEPT !.pos = q],
         node |-> IF text = <<>> THEN Nil
                  ELSE [kind |-> "Text", Content |-> text,
                        LineNumber |-> current(P).line]]

isEventHandler(name) ==
    HasPrefix(name, Chars("on")) /\ Len(name) > 2 /\ name[3] \in Upper

\* parseEventHandler: setterPattern, (set[A-Z]\w*)\s*\(
setterPattern ==
    RSeq(<<RCap(1, RSeq(<<RLit("set"), RSet(Upper), RStar(RW)>>)), RStar(RS), RCh("(")>>)

HandlerKeywords ==
    {Chars("true"), Chars("false"), Chars("null"), Chars("undefined"),
     Chars("return"), Chars("if"), Chars("else"), Chars("const"), Chars("let"),
     Chars("var"), Chars("function"), Chars("new"), Chars("this"),
     Chars("event"), Chars("e"), Chars("target"), Chars("value")}

\* parseEventHandler: the matches of identPattern, \b([a-z][a-zA-Z0-9]*)\b,
\* are the maximal runs of word characters that begin with a lower-case
\* letter and hold no underscore
MatchTexts(s, ms) == [k \in 1..Len(ms) |-> Slice(s, ms[k].s, ms[k].e)]

identMatches(body) ==
    LET IsIdent(w) == w[1] \in Lower /\ \A i \in 1..Len(w) : w[i] # "_"
    IN  SelectSeq(MatchTexts(body, FindAll(RPlus(RW), body)), IsIdent)

\* the elements of xs that pass Keep, each at its first occurrence only
FirstOccurrences(xs, keep) ==
    LET First(k) == xs[k] \in keep /\ \A j \in 1..(k - 1) : xs[j] # xs[k]
        idx == {k \in 1..Len(xs) : First(k)}
        Nth(n) == CHOOSE k \in idx : Cardinality({j \in idx : j < k}) = n - 1
    IN  [n \in 1..Cardinality(idx) |-> xs[Nth(n)]]

\* parseEventHandler: the identifiers kept as state variables
handlerStateVars(idents) ==
    FirstOccurrences(idents,
        {w \in {idents[k] : k \in 1..Len(idents)} \ HandlerKeywords :
            ~HasPrefix(w, Chars("set"))})

Groups(s, ms, n) == [k \in 1..Len(ms) |-> Group(s, ms[k], n)]

parseEventHandler(eventType, body, line) ==
    [EventType |-> eventType,
     HandlerBody |-> body,
     LineNumber |-> line,
     IsInline |-> Contains(body, Chars("=>")),
     SetterCalls |-> Groups(body, FindAll(setterPattern, body), 1),
     StateVars |-> handlerStateVars(identMatches(body))]

Attribute(name) ==
    [Name |-> name, Value |-> <<>>, Expression |-> Nil, IsSpread |-> FALSE,
     SpreadExpr |-> <<>>, EventHandler |-> Nil]

\* the quotes parseAttribute strips from a String token's Value
stripQuotes(val) ==
    IF /\ Len(val) >= 2
       /\ \/ val[1] = "\"" /\ val[Len(val)] = "\""
          \/ val[1] = "'" /\ val[Len(val)] = "'"
    THEN SubSeq(val, 2, Len(val) - 1)
    ELSE val

\* parseAttribute: [P, attr], attr = Nil for a nil result
parseAttribute(P0) ==
    LET P == skipWhitespace(P0)
    IN  IF check(P, "JSXExprOpen")
        THEN LET P2 == skipWhitespace(advance(P))
             IN  IF check(P2, "Spread")
                 THEN LET P3 == advance(P2)
                          q == closingBrace(P3)
                      IN  [P |-> [P3 EXCEPT !.pos = IF atEndAt(P3, q) THEN q ELSE q + 1],
                           attr |-> [Attribute(<<>>) EXCEPT
                                        !.IsSpread = TRUE,
                                        !.SpreadExpr = TrimSpace(ValuesOf(P3, P3.pos, q))]]
                 ELSE [P |-> [P2 EXCEPT !.pos = @ - 1], attr |-> Nil]
        ELSE IF ~check(P, "Ident")
        THEN [P |-> P, attr |-> Nil]
        ELSE LET name == current(P).value
                 P2 == skipWhitespace(advance(P))
             IN  IF ~check(P2, "Equals")
                 THEN [P |-> P2, attr |-> Attribute(name)]
                 ELSE LET P3 == skipWhitespace(advance(P2))
                      IN  IF check(P3, "String")
                          THEN [P |-> advance(P3),
                                attr |-> [Attribute(name) EXCEPT
                                             !.Value = stripQuotes(current(P3).value)]]
                          ELSE IF check(P3, "JSXExprOpen")
                          THEN LET r == parseExpressionContent(advance(P3))
                               IN  [P |-> r.P,
                                    attr |-> [Attribute(name) EXCEPT
                                        !.Expression = r.expr,
                                        !.EventHandler =
                                            IF isEventHandler(name)
                                            THEN parseEventHandler(name, r.expr.Raw,
                                                                   r.expr.LineNumber)
                                            ELSE Nil]]
                          ELSE [P |-> P3, attr |-> Attribute(name)]

\* parseProps: the loop that skips a complex default value stops at q
defaultValueEnd(P) ==
    LET depth(q) == CountTok(P, P.pos, q - 1, {"JSXExprOpen", "LParen"})
                        - CountTok(P, P.pos, q - 1, {"JSXExprClose", "RParen"})
    IN  MinOf({q \in Ahead(P) :
                  \/ atEndAt(P, q)
                  \/ /\ tokenAt(P, q).type \in {"JSXExprClose", "RParen", "Comma"}
                     /\ depth(q) = 0})

Prop(name) == [Name |-> name, DefaultValue |-> <<>>]

\* parseProps: one iteration of the loop over a destructured list,
\* [P, props]
propsIteration(P0, props) ==
    LET P == skipWhitespace(P0)
        P2 == skipWhitespace(advance(P))
        P3 == skipWhitespace(advance(P2))
        q == defaultValueEnd(P3)
        r == IF ~check(P, "Ident") THEN [P |-> P, props |-> props]
             ELSE IF ~check(P2, "Equals")
             THEN [P |-> P2, props |-> Append(props, Prop(current(P).value))]
             ELSE IF check(P3, "String")
             THEN [P |-> advance(P3),
                   props |-> Append(props, [Prop(current(P).value) EXCEPT
                                               !.DefaultValue = current(P3).value])]
             ELSE [P |-> [P3 EXCEPT !.pos = q],
                   props |-> Append(props, [Prop(current(P).value) EXCEPT
                                 !.DefaultValue = TrimSpace(ValuesOf(P3, P3.pos, q))])]
    IN  [P |-> match(skipWhitespace(r.P), "Comma"), props |-> r.props]

\* parseImport up to the named-import list: [P, imp, named]; named tells
\* that the list was opened
importHead(P0) ==
    LET P1 == advance(P0)
        imp == [Default |-> <<>>, Named |-> <<>>, Source |-> <<>>,
                LineNumber |-> current(P1).line]
        P2 == skipWhitespace(P1)
        tok == current(P2)
        isDefault == check(P2, "Ident") /\ ~checkIdent(P2, "from")
                        /\ tok.value # <<"{">> /\ tok.value # <<"*">>
        P3 == IF check(P2, "Ident") /\ ~checkIdent(P2, "from")
              THEN IF isDefault
                   THEN LET P4 == skipWhitespace(advance(P2))
                        IN  IF check(P4, "Comma") THEN skipWhitespace(advance(P4)) ELSE P4
                   ELSE advance(P2)
              ELSE P2
    IN  [P |-> IF check(P3, "JSXExprOpen") THEN advance(P3) ELSE P3,
         imp |-> IF isDefault THEN [imp EXCEPT !.Default = tok.value] ELSE imp,
         named |-> check(P3, "JSXExprOpen")]

\* parseImport: one iteration of the loop over the named imports; Named is
\* the map from name to alias
importIteration(P0, imp) ==
    LET P == skipWhitespace(P0)
        name == current(P).value
        P2 == skipWhitespace(advance(P))
        P3 == skipWhitespace(advance(P2))
        r == IF ~check(P, "Ident") THEN [P |-> P, imp |-> imp]
             ELSE IF ~checkIdent(P2, "as")
             THEN [P |-> P2, imp |-> [imp EXCEPT !.Named = (name :> name) @@ @]]
             ELSE IF check(P3, "Ident")
             THEN [P |-> advance(P3),
                   imp |-> [imp EXCEPT !.Named = (name :> current(P3).value) @@ @]]
             ELSE [P |-> P3, imp |-> [imp EXCEPT !.Named = (name :> name) @@ @]]
    IN  [P |-> match(skipWhitespace(r.P), "Comma"), imp |-> r.imp]

ImportStops == {Chars("import"), Chars("export"), Chars("function"), Chars("const")}

\* parseImport from `from` on: [P, imp]
importTail(P0, imp) ==
    LET P == skipWhitespace(P0)
        P2 == skipWhitespace(advance(P))
        hasSource == checkIdent(P, "from") /\ check(P2, "String")
        P3 == IF ~checkIdent(P, "from") THEN P
              ELSE IF check(P2, "String") THEN advance(P2) ELSE P2
    IN  [P |-> [P3 EXCEPT !.pos =
                   MinOf({q \in Ahead(P3) :
                             \/ atEndAt(P3, q)
                             \/ /\ tokenAt(P3, q).type = "Ident"
                                /\ tokenAt(P3, q).value \in ImportStops})],
         imp |-> IF hasSource THEN [imp EXCEPT !.Source = current(P2).value] ELSE imp]

Component(name, line) ==
    [Name |-> name, Props |-> <<>>, Body |-> Nil, Hooks |-> <<>>,
     StateVars |-> <<>>, DerivedVars |-> <<>>, LineNumber |-> line]

\* parseComponent after parseProps has returned: match `)`, the arrow of an
\* arrow function, up to the call of parseComponentBody
componentTail(P, isArrow, hadParen) ==
    LET P1 == skipWhitespace(IF hadParen THEN match(P, "RParen") ELSE P)
    IN  IF isArrow THEN skipWhitespace(match(P1, "Arrow")) ELSE P1

\* parseComponent up to parseProps' loop or to parseComponentBody:
\* [P, to, comp, isArrow]; to is "nil" when parseComponent returns nil,
\* "props" when the destructured list was opened, "body" otherwise
componentHead(P0) ==
    LET startLine == current(P0).line
        P1 == IF checkIdent(P0, "export")
              THEN skipWhitespace(matchIdent(skipWhitespace(advance(P0)), "default"))
              ELSE P0
        isArrow == checkIdent(P1, "const")
        P2 == skipWhitespace(advance(P1))
        name == current(P2).value
        P3 == advance(P2)
        P4 == skipWhitespace(P3)
        P5 == IF isArrow THEN skipWhitespace(match(P4, "Equals")) ELSE P4
        P6 == skipWhitespace(advance(P5))
        comp == Component(name, startLine)
        none == [to |-> "nil", comp |-> Nil, isArrow |-> isArrow]
    IN  IF ~checkIdent(P1, "const") /\ ~checkIdent(P1, "function")
        THEN [P |-> P1] @@ none
        ELSE IF ~check(P2, "Ident")
        THEN [P |-> P2] @@ none
        ELSE IF Len(name) > 0 /\ name[1] \in Lower /\ ~HasPrefix(name, Chars("use"))
        THEN [P |-> skipToNextStatement(P3)] @@ none
        ELSE IF ~check(P5, "LParen")
        THEN [P |-> componentTail(P5, isArrow, FALSE), to |-> "body",
              comp |-> comp, isArrow |-> isArrow]
        ELSE IF check(P6, "JSXExprOpen")
        THEN [P |-> advance(P6), to |-> "props", comp |-> comp, isArrow |-> isArrow]
        ELSE IF check(P6, "Ident")
        THEN [P |-> componentTail(advance(P6), isArrow, TRUE), to |-> "body",
              comp |-> [comp EXCEPT !.Props = <<Prop(current(P6).value)>>],
              isArrow |-> isArrow]
        ELSE [P |-> componentTail(P6, isArrow, TRUE), to |-> "body",
              comp |-> comp, isArrow |-> isArrow]

HookHints ==
    <<[name |-> "useState", kind |-> "useState",
       hint |-> "Consider: server state, mintydyn State, or HTMX pattern"],
      [name |-> "useEffect", kind |-> "useEffect",
       hint |-> "Consider: server-side logic, OnInit hook, or HTMX trigger"],
      [name |-> "useMemo", kind |-> "memoization",
       hint |-> "Consider: Go function or method - no memoization needed server-side"],
      [name |-> "useCallback", kind |-> "memoization",
       hint |-> "Consider: Go function or method - no memoization needed server-side"],
      [name |-> "useContext", kind |-> "useContext",
       hint |-> "Consider: function parameters or Go context.Context"],
      [name |-> "useRef", kind |-> "useRef",
       hint |-> "Consider: mi.ID() for DOM references in mintydyn hooks"],
      [name |-> "useReducer", kind |-> "useReducer",
       hint |-> "Consider: mintydyn Rules for state machines"]>>

\* detectHook: [P, hooks], the hooks of the component with the new Hook,
\* if name has the prefix "use"; Name is left empty
detectHook(P, name, hooks) ==
    LET line == current(P).line
        known == {k \in 1..Len(HookHints) : Chars(HookHints[k].name) = name}
    IN  IF ~HasPrefix(name, Chars("use")) THEN [P |-> P, hooks |-> hooks]
        ELSE [P |-> IF known = {} THEN P
                    ELSE LET h == HookHints[MinOf(known)]
                         IN  addSuggestion(P, line, name, h.hint, h.kind),
              hooks |-> Append(hooks, [Type |-> name, Name |-> <<>>,
                                       LineNumber |-> line])]

\* \w+(?:\.\w+)*
RDotted == RSeq(<<RPlus(RW), RStar(RSeq(<<RCh("."), RPlus(RW)>>))>>)

\* ^(\w+(?:\.\w+)*)\.map\s*\(\s*\(?\s*(\w+)(?:\s*,\s*(\w+))?\s*\)?\s*=>\s*
mapRegex ==
    RSeq(<<RCap(1, RDotted), RLit(".map"), RStar(RS), RCh("("), RStar(RS),
           ROpt(RCh("(")), RStar(RS), RCap(2, RPlus(RW)),
           ROpt(RSeq(<<RStar(RS), RCh(","), RStar(RS), RCap(3, RPlus(RW))>>)),
           RStar(RS), ROpt(RCh(")")), RStar(RS), RLit("=>"), RStar(RS)>>)

\* ^(.+?)\s*&&\s*
andRegex == RSeq(<<RCap(1, RLazyPlus(RDot)), RStar(RS), RLit("&&"), RStar(RS)>>)

\* ^([^?]+)\s*\?\s*
ternaryRegex == RSeq(<<RCap(1, RPlus(RNot({"?"}))), RStar(RS), RCh("?"), RStar(RS)>>)

\* ^\w+(?:\.\w+)*\.map\s*\(
isMapExpression(s) ==
    CanMatch(<<RSeq(<<RDotted, RLit(".map"), RStar(RS), RCh("(")>>)>>, s, 0)

\* the offsets i of s at which `)` closes the parenthesis that is open
\* once at offset from
closingParens(s, from) ==
    {i \in from..(Len(s) - 1) :
        /\ s[i + 1] = ")"
        /\ 1 + CountIn(s, from, i + 1, {"("}) - CountIn(s, from, i + 1, {")"}) = 0}

stripOuterParens(s0) ==
    LET s == TrimSpace(s0)
        closes == closingParens(s, 1)
    IN  IF ~HasPrefix(s, <<"(">>) THEN s
        ELSE IF closes = {} THEN s
        ELSE IF MinOf(closes) < Len(s) - 1 THEN s
        ELSE TrimSpace(Slice(s, 1, Len(s) - 1))

\* findTernaryColon splitting at the last colon instead
findTernaryColon_LastColon(s) ==
    LET colons == {i \in 0..(Len(s) - 1) : s[i + 1] = ":"}
    IN  IF colons = {} THEN -1 ELSE MaxOf(colons)

\* findTernaryColon with no depth counted for a nested `?`
findTernaryColon_FlatTernary(s) ==
    LET depth(i) == CountIn(s, 0, i, {"(", "[", "{"})
                        - CountIn(s, 0, i, {")", "]", "}"})
        colons == {i \in 0..(Len(s) - 1) : s[i + 1] = ":" /\ depth(i) = 0}
    IN  IF colons = {} THEN -1 ELSE MinOf(colons)

findTernaryColon(s) ==
    LET depth(i) == CountIn(s, 0, i, {"(", "[", "{", "?"})
                        - CountIn(s, 0, i, {")", "]", "}"})
        colons == {i \in 0..(Len(s) - 1) : s[i + 1] = ":" /\ depth(i) = 0}
    IN  IF colons = {} THEN -1 ELSE MinOf(colons)

\* analyzeExpression, .map(): the text handed to the body's lexer
mapBodyRaw(raw, bodyStart) ==
    LET b1 == TrimLeftSet(SliceFrom(raw, bodyStart), {" ", "\t", "\n", "\r"})
        b2 == SliceFrom(b1, 1)
        closes == closingParens(b2, 0)
        b3 == IF ~HasPrefix(b1, <<"(">>) THEN b1
              ELSE IF closes = {} THEN b2
              ELSE Slice(b2, 0, MinOf(closes))
    IN  TrimRightSet(b3, {" ", "\t", "\n", "\r", ")"})

\* a call frame of analyzeExpression: the node under construction and the
\* texts still to be parsed by nested lexers and parsers
AnalyzeFrame(raw, kind, part, stage, node, texts) ==
    [fn |-> "analyzeExpression", raw |-> raw, kind |-> kind, part |-> part,
     stage |-> stage, node |-> node, texts |-> texts, l |-> NewLexer, nested |-> FALSE]

\* analyzeExpression once its three expressions have been tried on the raw
\* text (matches mm, am, tm): <<>> if it returns nil, else the call frame
\* that goes on
analyzeMatched(expr, mm, am, tm) ==
    IF mm.ok
    THEN <<AnalyzeFrame(expr.Raw, "map", "body", "lex",
               [kind |-> "MapExpr", Collection |-> Group(expr.Raw, mm, 1),
                ItemVar |-> Group(expr.Raw, mm, 2), IndexVar |-> Group(expr.Raw, mm, 3),
                Body |-> Nil, LineNumber |-> expr.LineNumber],
               [body |-> mapBodyRaw(expr.Raw, mm.e)])>>
    ELSE IF am.ok
    THEN <<AnalyzeFrame(expr.Raw, "and", "body", "lex",
               [kind |-> "Conditional", Condition |-> TrimSpace(Group(expr.Raw, am, 1)),
                Consequent |-> Nil, LineNumber |-> expr.LineNumber],
               [body |-> stripOuterParens(TrimSpace(SliceFrom(expr.Raw, am.e)))])>>
    ELSE IF tm.ok /\ findTernaryColon(SliceFrom(expr.Raw, tm.e)) > 0
    THEN LET rest == SliceFrom(expr.Raw, tm.e)
             colonIdx == findTernaryColon(rest)
         IN  <<AnalyzeFrame(expr.Raw, "ternary", "consequent", "start",
                   [kind |-> "Ternary", Condition |-> TrimSpace(Group(expr.Raw, tm, 1)),
                    Consequent |-> Nil, Alternate |-> Nil,
                    LineNumber |-> expr.LineNumber],
                   [consequent |-> stripOuterParens(TrimSpace(Slice(rest, 0, colonIdx))),
                    alternate |-> stripOuterParens(TrimSpace(SliceFrom(rest, colonIdx + 1)))])>>
    ELSE <<>>

\* analyzeExpression trying the ternary expression before the guard
analyzeExpression_TernaryFirst(expr) ==
    LET tm == MatchAt(ternaryRegex, expr.Raw, 0)
        split == tm.ok /\ findTernaryColon(SliceFrom(expr.Raw, tm.e)) > 0
    IN  analyzeMatched(expr, MatchAt(mapRegex, expr.Raw, 0),
                       IF split THEN NoMatch ELSE MatchAt(andRegex, expr.Raw, 0), tm)

\* analyzeExpression up to its first nested parse
analyzeExpression(expr) ==
    analyzeMatched(expr, MatchAt(mapRegex, expr.Raw, 0), MatchAt(andRegex, expr.Raw, 0),
                   MatchAt(ternaryRegex, expr.Raw, 0))

\* parseElement up to the attribute loop: [P, ret, push]
elementHead(P0) ==
    LET P == skipWhitespace(advance(P0))
    IN  IF check(P, "TagClose")
        THEN [P |-> advance(P), ret |-> Nil,
              push |-> <<[fn |-> "parseFragment", stage |-> "children",
                          node |-> [kind |-> "Fragment", Children |-> <<>>,
                                    LineNumber |-> current(advance(P)).line]]>>]
        ELSE IF ~check(P, "Ident")
        THEN [P |-> addWarning(P, Chars("Expected tag name after <")), ret |-> Nil, push |-> <<>>]
        ELSE [P |-> advance(P), ret |-> Nil,
              push |-> <<[fn |-> "parseElement", stage |-> "attrs",
                          node |-> [kind |-> "Element", Tag |-> current(P).value,
                                    Attributes |-> <<>>, Children |-> <<>>,
                                    SelfClose |-> FALSE,
                                    LineNumber |-> current(P).line]]>>]

\* parseExpression once analyzeExpression has answered with push (no call
\* frame if it returned nil): [P, ret, push]
expressionResult(r, push) ==
    [P |-> r.P, ret |-> IF push = <<>> THEN r.expr ELSE Nil, push |-> push]

\* parseExpression after parseExpressionContent has returned r
parseExpressionWith(r) == expressionResult(r, analyzeExpression(r.expr))

parseExpression(P) == parseExpressionWith(parseExpressionContent(advance(P)))

\* parseText as parseNode returns it
textResult(t) == [P |-> t.P, ret |-> t.node, push |-> <<>>]

\* parseNode after its skipWhitespace, up to the first loop of the function
\* it dispatches to: [P, ret, push]; push holds the call frame that goes on,
\* and is empty when parseNode has returned ret
dispatchNode(P) ==
    IF isAtEnd(P) THEN [P |-> P, ret |-> Nil, push |-> <<>>]
    ELSE IF check(P, "JSXExprOpen") THEN parseExpression(P)
    ELSE IF check(P, "TagOpen") THEN elementHead(P)
    ELSE textResult(parseText(P))

parseNode(P) == dispatchNode(skipWhitespace(P))

-----------------------------------------------------------------------------
(* Pattern detector (package patterns).  Confidence is kept in hundredths   *)
(* (0.85 is 85); a record keeps the fields the detector itself reads or     *)
(* that tell records apart, the code snippets being opaque payload.         *)

PatternTabs == "tabs"
PatternAccordion == "accordion"
PatternFilter == "filter"
PatternFormDeps == "form-dependencies"
PatternModal == "modal"
PatternPagination == "pagination"
PatternDarkMode == "dark-mode"
PatternToggle == "toggle"
PatternSortableTable == "sortable-table"
PatternEffect == "effect"

DetectedPattern(typ, line, conf, desc, svs, dvs) ==
    [Type |-> typ, Line |-> line, Confidence |-> conf, Description |-> desc,
     StateVars |-> svs, DerivedVars |-> dvs]

\* addPattern without the duplicate scan
addPattern_NoDedup(pats, p) == Append(pats, p)

\* Detector.addPattern
addPattern(pats, p) ==
    IF \E k \in 1..Len(pats) : pats[k].Type = p.Type /\ pats[k].Line = p.Line
    THEN pats
    ELSE Append(pats, p)

countLines(s) == CountNewlines(s) + 1

\* a|b|c under (?i)
RAnyLitI(strs) == RAlt([k \in 1..Len(strs) |-> RLitI(strs[k])])

\* a.*b under (?i)
RThenI(a, b) == RSeq(<<RLitI(a), RStar(RDot), RLitI(b)>>)

\* attr=["']value["'] under (?i)
RAttrI(attr, value) == RSeq(<<RLitI(attr), RCh("="), RQuote, RLitI(value), RQuote>>)

tabPatterns ==
    <<RAttrI("role", "tablist"),
      RAttrI("role", "tab"),
      RLitI("aria-selected"),
      RSeq(<<RLitI("className="), RStar(RDot), RLitI("tab"), RStar(RDot), RLitI("active")>>),
      RAnyLitI(<<"activeTab", "selectedTab", "currentTab">>)>>

filterPatterns ==
    <<RSeq(<<RLit(".filter"), RStar(RS), RCh("(")>>),
      RAnyLitI(<<"searchTerm", "filterValue", "query">>),
      RAttrI("type", "search"),
      RThenI("onChange", "filter")>>

depPatterns ==
    <<RSeq(<<RLitI("disabled={"), RStar(RDot), RCh("}")>>),
      RThenI("hidden", "&&"),
      RSeq(<<RLitI("style={"), RStar(RDot), RLitI("display"), RStar(RDot), RLitI("none")>>),
      RAnyLitI(<<"showIf", "hideIf", "visibleWhen">>)>>

modalPatterns ==
    <<RAttrI("role", "dialog"),
      RLitI("aria-modal"),
      RAnyLitI(<<"Modal", "Dialog">>),
      RAnyLitI(<<"isOpen", "showModal", "modalOpen">>)>>

darkPatterns ==
    <<RAnyLitI(<<"darkMode", "darkTheme", "isDark">>),
      RAlt(<<RThenI("theme", "dark"), RThenI("dark", "theme")>>),
      RLitI("prefers-color-scheme"),
      RAnyLitI(<<"toggleTheme", "toggleDark">>)>>

pagePatterns ==
    <<RAnyLitI(<<"pagination", "paginate">>),
      RAlt(<<RLitI("pageNumber"), RLitI("currentPage"),
             RSeq(<<RLitI("page"), RStar(RS), RCh("=")>>)>>),
      RAnyLitI(<<"nextPage", "prevPage", "previousPage">>),
      RAnyLitI(<<"itemsPerPage", "pageSize", "limit">>)>>

accPatterns ==
    <<RLitI("accordion"),
      RLitI("collapsible"),
      RAlt(<<RThenI("expand", "collapse"), RThenI("collapse", "expand")>>),
      RLitI("aria-expanded")>>

togglePatterns ==
    <<RAnyLitI(<<"toggle", "switch">>),
      RSeq(<<RLitI("setIs"), RPlus(RW), RLit("(!")>>),
      RSeq(<<RLitI("prev"), RStar(RS), RLit("=>"), RStar(RS), RLitI("!prev")>>),
      RAttrI("type", "checkbox")>>

sortPatterns ==
    <<RAnyLitI(<<"sortColumn", "sortBy", "sortField">>),
      RAnyLitI(<<"sortDirection", "sortOrder", "ascending", "descending">>),
      RSeq(<<RLitI(".sort"), RStar(RS), RCh("(")>>),
      RThenI("onClick", "sort")>>

\* the expressions of list res that match somewhere in source
Matching(res, source) == {k \in 1..Len(res) : Find(res[k], source).ok}

\* the loop of a detect function without its break: every matching
\* expression of the list adds a record
RECURSIVE addEach(_, _, _, _, _, _, _)

\* the list after the iteration in which an expression has matched as m
addMatch(m, typ, conf, desc, source, pats) ==
    IF m.ok THEN addPattern(pats, DetectedPattern(typ,
                     countLines(Slice(source, 0, m.s)), conf, desc, <<>>, <<>>))
    ELSE pats

addEach(res, k, typ, conf, desc, source, pats) ==
    IF k > Len(res) THEN pats
    ELSE addEach(res, k + 1, typ, conf, desc, source,
                 addMatch(Find(res[k], source), typ, conf, desc, source, pats))

detectWith_NoBreak(res, typ, conf, desc, source, pats) ==
    addEach(res, 1, typ, conf, desc, source, pats)

\* the loop shared by the detect functions: the first expression of the list
\* that matches adds one record at the line of its match start, then break
addFirst(hits, res, typ, conf, desc, source, pats) ==
    IF hits = {} THEN pats
    ELSE addMatch(Find(res[MinOf(hits)], source), typ, conf, desc, source, pats)

detectWith(res, typ, conf, desc, source, pats) ==
    addFirst(Matching(res, source), res, typ, conf, desc, source, pats)

detectTabsPattern(source, pats) ==
    detectWith(tabPatterns, PatternTabs, 80, "Tab UI pattern detected", source, pats)

detectFilterPattern(source, pats) ==
    detectWith(filterPatterns, PatternFilter, 70, "Filter/search pattern detected", source, pats)

detectFormDepsPattern(source, pats) ==
    detectWith(depPatterns, PatternFormDeps, 60,
               "Form field dependency pattern detected", source, pats)

detectModalPattern(source, pats) ==
    detectWith(modalPatterns, PatternModal, 70, "Modal/dialog pattern detected", source, pats)

detectDarkModePattern(source, pats) ==
    detectWith(darkPatterns, PatternDarkMode, 90, "Dark mode pattern detected", source, pats)

detectPaginationPattern(source, pats) ==
    detectWith(pagePatterns, PatternPagination, 75, "Pagination pattern detected", source, pats)

detectAccordionPattern(source, pats) ==
    detectWith(accPatterns, PatternAccordion, 75,
               "Accordion/collapsible pattern detected", source, pats)

detectTogglePattern(source, pats) ==
    detectWith(togglePatterns, PatternToggle, 70, "Toggle/switch pattern detected", source, pats)

detectSortableTablePattern(source, pats) ==
    detectWith(sortPatterns, PatternSortableTable, 75,
               "Sortable table pattern detected", source, pats)

\* the number of detect calls AnalyzeSource makes
DetectCalls == 9

\* the k-th detect call of AnalyzeSource
detectCall(k, source, pats) ==
    CASE k = 1 -> detectTabsPattern(source, pats)
      [] k = 2 -> detectFilterPattern(source, pats)
      [] k = 3 -> detectFormDepsPattern(source, pats)
      [] k = 4 -> detectModalPattern(source, pats)
      [] k = 5 -> detectDarkModePattern(source, pats)
      [] k = 6 -> detectPaginationPattern(source, pats)
      [] k = 7 -> detectAccordionPattern(source, pats)
      [] k = 8 -> detectTogglePattern(source, pats)
      [] k = 9 -> detectSortableTablePattern(source, pats)

\* analyzeStatePatterns: stateNames, the map from lower-cased name to state
\* variable; a later variable replaces an earlier one under the same key
stateNames(comp) ==
    LET keys == {ToLower(comp.StateVars[k].Name) : k \in 1..Len(comp.StateVars)}
    IN  [n \in keys |->
            comp.StateVars[MaxOf({k \in 1..Len(comp.StateVars) :
                                    ToLower(comp.StateVars[k].Name) = n})]]

ContainsAny(name, strs) == \E k \in 1..Len(strs) : Contains(name, Chars(strs[k]))

hasDerivedFilter(comp) ==
    \E k \in 1..Len(comp.DerivedVars) : comp.DerivedVars[k].Operation = "filter"

\* the number of `for name, sv := range stateNames` loops of analyzeStatePatterns
StateLoops == 5

\* the body of the loop-th loop of analyzeStatePatterns for one map entry
stateLoopBody(loop, name, sv, comp, pats) ==
    CASE loop = 1 ->
            IF ContainsAny(name, <<"tab", "selected">>) /\ sv.InitType = TString
            THEN addPattern(pats, DetectedPattern(PatternTabs, sv.LineNumber, 85,
                                "Tab state with string selector", <<sv.Name>>, <<>>))
            ELSE pats
      [] loop = 2 ->
            IF ContainsAny(name, <<"filter", "search", "query">>) /\ sv.InitType = TString
            THEN addPattern(pats, DetectedPattern(PatternFilter, sv.LineNumber,
                                IF hasDerivedFilter(comp) THEN 95 ELSE 70,
                                "Filter/search with derived filtered list", <<sv.Name>>, <<>>))
            ELSE pats
      [] loop = 3 ->
            IF sv.InitType # TBool THEN pats
            ELSE IF ContainsAny(name, <<"modal", "dialog">>)
            THEN addPattern(pats, DetectedPattern(PatternModal, sv.LineNumber, 85,
                                "Modal visibility state", <<sv.Name>>, <<>>))
            ELSE IF ContainsAny(name, <<"open", "expanded", "collapsed">>)
            THEN addPattern(pats, DetectedPattern(PatternAccordion, sv.LineNumber, 75,
                                "Accordion/collapsible state", <<sv.Name>>, <<>>))
            ELSE IF ContainsAny(name, <<"active", "enabled", "show", "visible">>)
            THEN addPattern(pats, DetectedPattern(PatternToggle, sv.LineNumber, 70,
                                "Toggle/visibility state", <<sv.Name>>, <<>>))
            ELSE pats
      [] loop = 4 ->
            IF ContainsAny(name, <<"page", "offset">>) /\ sv.InitType \in {TInt, TFloat}
            THEN addPattern(pats, DetectedPattern(PatternPagination, sv.LineNumber, 80,
                                "Pagination state", <<sv.Name>>, <<>>))
            ELSE pats
      [] loop = 5 ->
            IF ContainsAny(name, <<"sort">>)
            THEN addPattern(pats, DetectedPattern(PatternSortableTable, sv.LineNumber, 80,
                                "Sortable table state", <<sv.Name>>, <<>>))
            ELSE pats

\* analyzeDerivedPatterns: the body of its loop for one derived variable
derivedLoopBody(dv, pats) ==
    CASE dv.Operation = "filter" ->
            IF \E k \in 1..Len(pats) : pats[k].Type = PatternFilter THEN pats
            ELSE addPattern(pats, DetectedPattern(PatternFilter, dv.LineNumber, 65,
                                "Client-side filtering detected", <<>>, <<dv.Name>>))
      [] dv.Operation = "sort" ->
            addPattern(pats, DetectedPattern(PatternSortableTable, dv.LineNumber, 75,
                           "Client-side sorting detected", <<>>, <<dv.Name>>))
      [] OTHER -> pats

\* one `if strings.Contains(name, ..) { d.addPattern(..) }` of analyzeStateUsage
usageIf(name, strs, typ, conf, desc, hook, pats) ==
    IF ContainsAny(name, strs)
    THEN addPattern(pats, DetectedPattern(typ, hook.LineNumber, conf, desc, <<>>, <<>>))
    ELSE pats

analyzeStateUsage(hook, pats) ==
    LET name == ToLower(hook.Name)
        p1 == usageIf(name, <<"tab", "active">>, PatternTabs, 70,
                      "Tab state management detected", hook, pats)
        p2 == usageIf(name, <<"filter", "search", "query">>, PatternFilter, 80,
                      "Filter/search state detected", hook, p1)
        p3 == usageIf(name, <<"modal", "open", "show">>, PatternModal, 60,
                      "Modal/dialog state detected", hook, p2)
        p4 == usageIf(name, <<"dark", "theme">>, PatternDarkMode, 90,
                      "Dark mode/theme state detected", hook, p3)
    IN  usageIf(name, <<"page", "offset", "limit">>, PatternPagination, 70,
                "Pagination state detected", hook, p4)

analyzeEffectUsage(hook, pats) ==
    addPattern(pats, DetectedPattern(PatternEffect, hook.LineNumber, 50,
                   "useEffect detected - consider server-side alternative", <<>>, <<>>))

\* analyzeComponent: the body of its loop over comp.Hooks
hookLoopBody(hook, pats) ==
    CASE hook.Type = "useState" -> analyzeStateUsage(hook, pats)
      [] hook.Type = "useEffect" -> analyzeEffectUsage(hook, pats)
      [] OTHER -> pats

-----------------------------------------------------------------------------
(* State                                                                    *)

VARIABLES
    pc,          \* phase of the run under study
    input,       \* the source text handed to the program
    lex,         \* Lexer: [pos, line, column, tokens]
    stateVars,   \* the []StateVariable extracted from input
    derivedVars, \* the []DerivedVariable extracted from input
    parsers,     \* the Parsers in use: the one of the input, then the
                 \* ones analyzeExpression has made for nested texts
    frames,      \* the call stack of the parse
    ret,         \* the Node the last parse call returned
    result,      \* the ParseResult
    patterns,    \* Detector.patterns
    ctl,         \* the Detector invocation in progress and its position
    runs         \* what the invocations of the Detector returned, in order

lexVars == <<lex>>
exVars == <<stateVars, derivedVars>>
parVars == <<parsers, frames, ret, result>>
detVars == <<patterns, ctl, runs>>
vars == <<pc, input, lex, stateVars, derivedVars, parsers, frames, ret, result,
          patterns, ctl, runs>>

\* no parse has begun
NoParser ==
    /\ parsers = <<>>
    /\ frames = <<>>
    /\ ret = Nil
    /\ result = Nil

\* no Detector invocation in progress
Idle ==
    [op |-> "idle", stage |-> "idle", in |-> <<>>, source |-> <<>>, file |-> <<>>,
     comp |-> 0, loop |-> 0, todo |-> {}, k |-> 0]

\* NewDetector
NewDetector ==
    /\ patterns = <<>>
    /\ ctl = Idle
    /\ runs = <<>>

-----------------------------------------------------------------------------
(* Tokenizer runs: Tokenize's loop, one scanToken per step                  *)

MaxLexLen == 4

LexAlphabet == {"a", "1", ".", " ", "\n", "\"", "'", "\\", "<"}

InitLex ==
    /\ input \in SeqsUpTo(LexAlphabet, MaxLexLen)
    /\ lex = NewLexer
    /\ pc = "lexing"
    /\ stateVars = <<>>
    /\ derivedVars = <<>>
    /\ NoParser
    /\ NewDetector

\* Tokenize: one iteration of `for l.pos < len(l.input) { l.scanToken() }`
ScanToken ==
    /\ pc = "lexing"
    /\ lex.pos < Len(input)
    /\ lex' = scanToken(input, lex)
    /\ UNCHANGED <<pc, input, exVars, parVars, detVars>>

\* Tokenize returning without the end-of-input token
EmitEOF_NoToken ==
    /\ pc = "lexing"
    /\ lex.pos >= Len(input)
    /\ pc' = "lexed"
    /\ UNCHANGED <<input, lex, exVars, parVars, detVars>>

\* Tokenize: loop exit, emit(TokenEOF, ""), return l.tokens
EmitEOF ==
    /\ pc = "lexing"
    /\ lex.pos >= Len(input)
    /\ lex' = emit(lex, "EOF", <<>>)
    /\ pc' = "lexed"
    /\ UNCHANGED <<input, exVars, parVars, detVars>>

NextLex == ScanToken \/ EmitEOF

SpecLex == InitLex /\ [][NextLex]_vars

\* C2: concatenating the Value of every token returned by Tokenize, in
\* order, yields exactly the original input text.
C2_RoundTrip == pc = "lexed" => ConcatValues(lex.tokens) = input

\* the indices of the tokens of kind typ
TokensOf(toks, typ) == {k \in 1..Len(toks) : toks[k].type = typ}

\* C12: for every input, the empty one and one that ends inside an
\* unterminated string included, the sequence Tokenize returns ends with an
\* end-of-input token and holds no other end-of-input token; none is emitted
\* while the loop runs.
C12_EndsWithOneEOF ==
    /\ pc = "lexing" => TokensOf(lex.tokens, "EOF") = {}
    /\ pc = "lexed" => TokensOf(lex.tokens, "EOF") = {Len(lex.tokens)}

\* Tokenize has returned for an input that ends inside a string
C12_Witness ==
    /\ pc = "lexed"
    /\ Len(lex.tokens) >= 2
    /\ lex.tokens[Len(lex.tokens) - 1].type = "Error"
    /\ Top(lex.tokens).type = "EOF"

\* C13: the Offset of each token is strictly greater than that of the token
\* before it, except that the end-of-input token may carry the Offset of its
\* predecessor; every scanToken step emits exactly one token and advances the
\* cursor by at least one byte.
C13_OffsetsIncrease ==
    /\ \A k \in 2..Len(lex.tokens) :
          \/ lex.tokens[k].offset > lex.tokens[k - 1].offset
          \/ /\ lex.tokens[k].type = "EOF"
             /\ k = Len(lex.tokens)
             /\ lex.tokens[k].offset = lex.tokens[k - 1].offset
    /\ (pc = "lexing" /\ lex.pos < Len(input)) =>
          /\ Len(scanToken(input, lex).tokens) = Len(lex.tokens) + 1
          /\ SubSeq(scanToken(input, lex).tokens, 1, Len(lex.tokens)) = lex.tokens
          /\ scanToken(input, lex).pos > lex.pos

\* Tokenize has returned three tokens or more, the end-of-input token with
\* the Offset of the token before it
C13_Witness ==
    /\ pc = "lexed"
    /\ Len(lex.tokens) >= 3
    /\ Top(lex.tokens).offset = lex.tokens[Len(lex.tokens) - 1].offset
    /\ lex.tokens[2].offset > lex.tokens[1].offset

\* the number of backslashes that end at offset i of inp and begin at offset
\* start or later
BackslashRun(inp, start, i) ==
    MaxOf({n \in 0..(i - start) : \A j \in (i - n)..(i - 1) : inp[j + 1] = "\\"})

\* offset i holds the unescaped quote that closes the literal opened at
\* offset q
ClosesAt(inp, q, i) ==
    /\ inp[i + 1] = inp[q + 1]
    /\ BackslashRun(inp, q + 1, i) % 2 = 0

\* the quote at offset q opens a literal with no matching unescaped closing
\* quote before the end of the input
Unterminated(inp, q) == \A i \in (q + 1)..(Len(inp) - 1) : ~ClosesAt(inp, q, i)

\* C17: scanToken at an opening quote of an unterminated string literal
\* emits exactly one token, of kind Error, and leaves the cursor at the end
\* of the input (at a terminated one it emits a String); the sequence
\* Tokenize returns then holds that Error token and after it the
\* end-of-input token only.
C17_UnterminatedStringIsOneError ==
    /\ (pc = "lexing" /\ lex.pos < Len(input) /\ IsQuote(peek(input, lex))) =>
          LET n == scanToken(input, lex)
          IN  /\ Len(n.tokens) = Len(lex.tokens) + 1
              /\ SubSeq(n.tokens, 1, Len(lex.tokens)) = lex.tokens
              /\ IF Unterminated(input, lex.pos)
                 THEN Top(n.tokens).type = "Error" /\ n.pos = Len(input)
                 ELSE Top(n.tokens).type = "String"
    /\ pc = "lexed" =>
          /\ TokensOf(lex.tokens, "Error") \subseteq {Len(lex.tokens) - 1}
          /\ Top(lex.tokens).type = "EOF"

\* Tokenize has returned for an input in which a literal is opened after
\* another token and holds an escaped quote of its own kind: the tokens end
\* with Error and end-of-input
C17_Witness ==
    /\ pc = "lexed"
    /\ Len(lex.tokens) >= 3
    /\ lex.tokens[Len(lex.tokens) - 1].type = "Error"
    /\ Top(lex.tokens).type = "EOF"
    /\ \E i \in 2..Len(input) : input[i - 1] = "\\" /\ IsQuote(input[i])

\* C20: every Number token consists of digits with at most one dot: `1.2.3`
\* or `1...` is not emitted as a single Number token.
C20_NumberHasOneDotAtMost ==
    \A k \in TokensOf(lex.tokens, "Number") :
        /\ \A i \in 1..Len(lex.tokens[k].value) : isNumberChar(lex.tokens[k].value[i])
        /\ Cardinality({i \in 1..Len(lex.tokens[k].value) :
                           lex.tokens[k].value[i] = "."}) <= 1

-----------------------------------------------------------------------------
(* Variable extraction runs: the two extraction calls that open Parse       *)

MaxExtractFrags == 3

DeclCount == Chars("const [count, setCount] = useState(0)")
DeclItems == Chars("const [items, setItems] = useState([])")
DeclCall == Chars("const [n, setN] = useState(f(1))")
DeclVisible == Chars("const visible = items.filter(i => i.active)")
DeclShown == Chars("run(() => { const shown = rows.filter(r => r.id > count) })")

\* the pieces source texts are put together from
ExtractFrags ==
    <<DeclCount, DeclItems, DeclCall, DeclVisible, Chars("\n"),
      Chars("const [a, b] = useState("), Chars(" /* twenty chars pad */ "), DeclShown>>

ExtractInputs ==
    {Flatten([k \in 1..Len(fs) |-> ExtractFrags[fs[k]]]) :
        fs \in SeqsUpTo(1..Len(ExtractFrags), MaxExtractFrags)}

InitExtract ==
    /\ input \in ExtractInputs
    /\ pc = "extract"
    /\ lex = NewLexer
    /\ stateVars = <<>>
    /\ derivedVars = <<>>
    /\ NoParser
    /\ NewDetector

\* Parse: allStateVars = extractUseStateVars(p.source)
ExtractState ==
    /\ pc = "extract"
    /\ stateVars' = extractUseStateVars(input)
    /\ pc' = "extractDerived"
    /\ UNCHANGED <<input, lex, derivedVars, parVars, detVars>>

\* Parse: allDerivedVars = extractDerivedVars(p.source, allStateVars)
ExtractDerived ==
    /\ pc = "extractDerived"
    /\ derivedVars' = extractDerivedVars(input, stateVars)
    /\ pc' = "extracted"
    /\ UNCHANGED <<input, lex, stateVars, parVars, detVars>>

NextExtract == ExtractState \/ ExtractDerived

SpecExtract == InitExtract /\ [][NextExtract]_vars

\* the offsets at which text t occurs in s
Occurrences(s, t) == {at \in 0..Len(s) : HasPrefixAt(s, at, t)}

InSeq(x, xs) == \E k \in 1..Len(xs) : xs[k] = x

\* the StateVariable the claim expects for a declaration found at offset at
ExpectedStateVar(name, setter, init, kind, at) ==
    [Name |-> Chars(name), Setter |-> Chars(setter), InitValue |-> Chars(init),
     InitType |-> kind, LineNumber |-> 1 + CountNewlines(Slice(input, 0, at))]

\* C5 as stated: every declaration `const [name, setter] = useState(init)`
\* in the input, on line L, yields the StateVariable (name, setter, init,
\* kind of init, L).
C5_EveryDeclarationExtracted ==
    pc = "extracted" =>
        /\ \A at \in Occurrences(input, DeclCount) :
              InSeq(ExpectedStateVar("count", "setCount", "0", TInt, at), stateVars)
        /\ \A at \in Occurrences(input, DeclItems) :
              InSeq(ExpectedStateVar("items", "setItems", "[]", TArray, at), stateVars)
        /\ \A at \in Occurrences(input, DeclCall) :
              InSeq(ExpectedStateVar("n", "setN", "f(1)", TUnknown, at), stateVars)

\* offset at lies inside a match of the declaration pattern begun earlier
InsideEarlierMatch(at) ==
    \E q \in 0..(at - 1) : MatchAt(useStatePattern, input, q).e > at

\* C5 amended: a declaration whose initializer has no ")" and which does not
\* begin inside an earlier match of the declaration pattern yields the
\* StateVariable (name, setter, init, kind of init, L).
C5_DeclarationExtracted ==
    pc = "extracted" =>
        /\ \A at \in Occurrences(input, DeclCount) :
              ~InsideEarlierMatch(at) =>
                  InSeq(ExpectedStateVar("count", "setCount", "0", TInt, at), stateVars)
        /\ \A at \in Occurrences(input, DeclItems) :
              ~InsideEarlierMatch(at) =>
                  InSeq(ExpectedStateVar("items", "setItems", "[]", TArray, at), stateVars)

\* C5 witness: a declaration on a line after the first has been extracted
C5_Witness ==
    /\ pc = "extracted"
    /\ \E at \in Occurrences(input, DeclCount) :
          /\ ~InsideEarlierMatch(at)
          /\ CountNewlines(Slice(input, 0, at)) > 0
          /\ InSeq(ExpectedStateVar("count", "setCount", "0", TInt, at), stateVars)

\* C6: `const visible = items.filter(i => i.active)` on a line after the
\* declaration of the state variable items yields a DerivedVariable visible
\* with Operation filter, SourceVar items and items in DependsOn.
C6_DerivedExtracted ==
    pc = "extracted" =>
        \A at \in Occurrences(input, DeclVisible) :
            (\E k \in 1..Len(stateVars) :
                /\ stateVars[k].Name = Chars("items")
                /\ stateVars[k].LineNumber < 1 + CountNewlines(Slice(input, 0, at)))
            => \E k \in 1..Len(derivedVars) :
                /\ derivedVars[k].Name = Chars("visible")
                /\ derivedVars[k].Operation = "filter"
                /\ derivedVars[k].SourceVar = Chars("items")
                /\ Chars("items") \in DOMAIN derivedVars[k].DependsOn

\* C14: every name in the DependsOn list of a DerivedVariable returned by
\* extractDerivedVars is the Name of a StateVariable of the list extracted
\* for the same source text.
C14_DependsOnStateVars ==
    pc = "extracted" =>
        \A k \in 1..Len(derivedVars) :
            DOMAIN derivedVars[k].DependsOn \subseteq
                {stateVars[j].Name : j \in 1..Len(stateVars)}

\* the extraction has returned a DerivedVariable over a collection that is
\* no state variable, whose expression names a state variable
C14_Witness ==
    /\ pc = "extracted"
    /\ \E k \in 1..Len(derivedVars) :
          /\ DOMAIN derivedVars[k].DependsOn # {}
          /\ derivedVars[k].SourceVar \notin DOMAIN derivedVars[k].DependsOn

\* the matches of the derived-variable patterns in the input that the
\* destructuring heuristic does not skip, each with its operation
DerivedMatches ==
    LET kept(op, ms) ==
            {[op |-> op, m |-> ms[j]] :
                j \in {i \in 1..Len(ms) : ~skipAsDestructuring(input, ms[i])}}
    IN  UNION {kept(derivedPatterns[k].opType,
                    FindAll(derivedRegex(derivedPatterns[k].opType), input)) :
               k \in 1..Len(derivedPatterns)}

\* the offset after the ")" closing the "(" that ends match m, by depth
\* counting from just after that "("; -1 when it is never closed
CallEnd(s, m) == findMatchingParen(s, m.e)

\* C21: for each match `const name = source.OP(` whose call parenthesis is
\* closed, the recorded Expression is the source text from the start of the
\* `const` declaration through the parenthesis closing the call's own `(`.
C21_ExpressionIsCallText ==
    pc = "extracted" =>
        \A d \in DerivedMatches :
            CallEnd(input, d.m) # -1 =>
                \E k \in 1..Len(derivedVars) :
                    /\ derivedVars[k].Name = Group(input, d.m, 1)
                    /\ derivedVars[k].Operation = d.op
                    /\ derivedVars[k].LineNumber = LineOf(input, d.m.s)
                    /\ derivedVars[k].Expression = Slice(input, d.m.s, CallEnd(input, d.m))

-----------------------------------------------------------------------------
(* Detector runs: invocations of AnalyzeSource and Analyze on one Detector  *)

MaxRuns == 3
MaxSourceFrags == 2
MaxComps == 2

\* the pieces raw texts are put together from
SourceFrags ==
    <<Chars("<ul role=\"tablist\">"), Chars("<li aria-selected>\n"), Chars("\n"),
      Chars("rows.filter(r => r.ok)"), Chars("<Modal theme=\"dark\">"),
      Chars("setPage(p); toggle()")>>

\* the components files are put together from, as source text
CompTexts ==
    <<Chars("function A() {\n  const [search, setSearch] = useState('');\n  const visible = items.filter(i => i.ok);\n  return <p/>;\n}\n"),
      Chars("function B() {\n  const [search, setSearch] = useState('');\n  const [page, setPage] = useState(1);\n  return <p/>;\n}\n"),
      Chars("function C() {\n  const [search, setSearch] = useState('');\n  const [Search, setBig] = useState('x');\n  return <p/>;\n}\n"),
      Chars("function D() {\n  const shown = rows.filter(r => r.ok);\n  const sorted = rows.sort(cmp);\n  return <p/>;\n}\n"),
      Chars("function E() {\n  const [tab, setTab] = useState('a'); const [selected, setSelected] = useState('b');\n  const [sortBy, setSortBy] = useState('n'); const sorted = rows.sort(cmp);\n  return <p/>;\n}\n"),
      Chars("function F() {\n  const [isOpen, setIsOpen] = useState(false); const [showModal, setShowModal] = useState(false);\n  useEffect(() => {}, []); const [darkMode, setDarkMode] = useState(false);\n  return <p/>;\n}\n")>>

SourceIds == {[kind |-> "source", parts |-> fs] :
                 fs \in SeqsUpTo(1..Len(SourceFrags), MaxSourceFrags)}

FileIds == {[kind |-> "file", parts |-> cs] :
               cs \in SeqsUpTo(1..Len(CompTexts), MaxComps)}

\* the inputs a Detector that has already run may be handed besides the
\* input of its first run
OtherInputs ==
    {[kind |-> "source", parts |-> <<2, 1>>], [kind |-> "file", parts |-> <<5>>]}

SourceOf(id) == Flatten([k \in 1..Len(id.parts) |-> SourceFrags[id.parts[k]]])

FileSource(id) == Flatten([k \in 1..Len(id.parts) |-> CompTexts[id.parts[k]]])

\* every component taken to extend to the end of the file
findComponentEnd_EndOfFile(lines, idx) == 999999

\* Parse: findComponentEnd, over the LineNumbers of the components
findComponentEnd(lines, idx) ==
    IF idx + 1 <= Len(lines) THEN lines[idx + 1] ELSE 999999

\* Parse: the variables whose LineNumber lies in [compStart, compEnd)
inComponent(vs, compStart, compEnd) ==
    LET Inside(v) == v.LineNumber >= compStart /\ v.LineNumber < compEnd
    IN  SelectSeq(vs, Inside)

\* parseComponentBody/detectHook: a Hook for every identifier with prefix
\* "use" in a component text whose header is on line base; Name is never set
hookAt(text, base, m) ==
    [Type |-> Slice(text, m.s, m.e), Name |-> <<>>,
     LineNumber |-> base + CountNewlines(Slice(text, 0, m.s))]

hooksAt(text, base, ms) == [k \in 1..Len(ms) |-> hookAt(text, base, ms[k])]

hooksOf(text, base) ==
    LET AtStart(m) == m.s = 0 \/ ~isIdentChar(text[m.s])
    IN  hooksAt(text, base,
            SelectSeq(FindAll(RSeq(<<RLit("use"), RStar(RSet(WordChars \cup {"$", "-"}))>>),
                              text), AtStart))

\* Parse on the text of file id: the Components with their variables attached
FileOf(id) ==
    LET source == FileSource(id)
        n == Len(id.parts)
        lines == [k \in 1..n |->
                     countLines(Flatten([j \in 1..(k - 1) |-> CompTexts[id.parts[j]]]))]
        allStateVars == extractUseStateVars(source)
        allDerivedVars == extractDerivedVars(source, allStateVars)
    IN  [k \in 1..n |->
            [LineNumber |-> lines[k],
             Hooks |-> hooksOf(CompTexts[id.parts[k]], lines[k]),
             StateVars |-> inComponent(allStateVars, lines[k], findComponentEnd(lines, k)),
             DerivedVars |-> inComponent(allDerivedVars, lines[k], findComponentEnd(lines, k))]]

\* `d.patterns = nil` left out of Analyze and AnalyzeSource
resetPatterns_Keep(pats) == pats

\* Analyze, AnalyzeSource: d.patterns = nil
resetPatterns(pats) == <<>>

InitDetect ==
    /\ pc = "detect"
    /\ input = <<>>
    /\ lex = NewLexer
    /\ stateVars = <<>>
    /\ derivedVars = <<>>
    /\ NoParser
    /\ NewDetector

\* a caller may start an invocation with input id
MayBegin(id) ==
    /\ pc = "detect"
    /\ ctl.op = "idle"
    /\ Len(runs) < MaxRuns
    /\ IF runs = <<>> THEN TRUE ELSE id = runs[1].in \/ id \in OtherInputs

\* AnalyzeSource: entry
BeginAnalyzeSource ==
    \E id \in SourceIds :
        /\ MayBegin(id)
        /\ patterns' = resetPatterns(patterns)
        /\ ctl' = [Idle EXCEPT !.op = "AnalyzeSource", !.stage = "detect", !.in = id,
                               !.source = SourceOf(id), !.k = 1]
        /\ UNCHANGED <<pc, input, lex, exVars, parVars, runs>>

\* AnalyzeSource: the next of its detect calls
DetectIdiom ==
    /\ ctl.op = "AnalyzeSource"
    /\ ctl.k <= DetectCalls
    /\ patterns' = detectCall(ctl.k, ctl.source, patterns)
    /\ ctl' = [ctl EXCEPT !.k = @ + 1]
    /\ UNCHANGED <<pc, input, lex, exVars, parVars, runs>>

\* AnalyzeSource: return d.patterns
ReturnAnalyzeSource ==
    /\ ctl.op = "AnalyzeSource"
    /\ ctl.k > DetectCalls
    /\ runs' = Append(runs, [op |-> ctl.op, in |-> ctl.in, result |-> patterns])
    /\ ctl' = Idle
    /\ UNCHANGED <<pc, input, lex, exVars, parVars, patterns>>

\* Analyze: entry
BeginAnalyze ==
    \E id \in FileIds :
        /\ MayBegin(id)
        /\ patterns' = resetPatterns(patterns)
        /\ ctl' = [Idle EXCEPT !.op = "Analyze", !.stage = "comp", !.in = id,
                               !.file = FileOf(id), !.comp = 1]
        /\ UNCHANGED <<pc, input, lex, exVars, parVars, runs>>

\* Analyze: the next component of the range loop; analyzeComponent and
\* analyzeStatePatterns up to the first loop over stateNames
AnalyzeComponent ==
    /\ ctl.op = "Analyze"
    /\ ctl.stage = "comp"
    /\ ctl.comp <= Len(ctl.file)
    /\ ctl' = [ctl EXCEPT !.stage = "state", !.loop = 1,
                          !.todo = DOMAIN stateNames(ctl.file[ctl.comp])]
    /\ UNCHANGED <<pc, input, lex, exVars, parVars, patterns, runs>>

\* analyzeStatePatterns: one iteration of a loop over the map stateNames,
\* whose iteration order is unspecified
StatePatternStep ==
    /\ ctl.op = "Analyze"
    /\ ctl.stage = "state"
    /\ \E name \in ctl.todo :
        /\ patterns' = stateLoopBody(ctl.loop, name,
                                     stateNames(ctl.file[ctl.comp])[name],
                                     ctl.file[ctl.comp], patterns)
        /\ ctl' = [ctl EXCEPT !.todo = @ \ {name}]
    /\ UNCHANGED <<pc, input, lex, exVars, parVars, runs>>

\* analyzeStatePatterns: a loop over stateNames is done; on to the next
\* loop, or to analyzeDerivedPatterns
StatePatternLoopExit ==
    /\ ctl.op = "Analyze"
    /\ ctl.stage = "state"
    /\ ctl.todo = {}
    /\ ctl' = IF ctl.loop < StateLoops
              THEN [ctl EXCEPT !.loop = @ + 1,
                               !.todo = DOMAIN stateNames(ctl.file[ctl.comp])]
              ELSE [ctl EXCEPT !.stage = "derived", !.loop = 0, !.k = 1]
    /\ UNCHANGED <<pc, input, lex, exVars, parVars, patterns, runs>>

\* analyzeDerivedPatterns: one iteration of the loop over comp.DerivedVars
DerivedPatternStep ==
    /\ ctl.op = "Analyze"
    /\ ctl.stage = "derived"
    /\ ctl.k <= Len(ctl.file[ctl.comp].DerivedVars)
    /\ patterns' = derivedLoopBody(ctl.file[ctl.comp].DerivedVars[ctl.k], patterns)
    /\ ctl' = [ctl EXCEPT !.k = @ + 1]
    /\ UNCHANGED <<pc, input, lex, exVars, parVars, runs>>

\* analyzeDerivedPatterns returns; analyzeComponent goes on to comp.Hooks
DerivedLoopExit ==
    /\ ctl.op = "Analyze"
    /\ ctl.stage = "derived"
    /\ ctl.k > Len(ctl.file[ctl.comp].DerivedVars)
    /\ ctl' = [ctl EXCEPT !.stage = "hooks", !.k = 1]
    /\ UNCHANGED <<pc, input, lex, exVars, parVars, patterns, runs>>

\* analyzeComponent: one iteration of the loop over comp.Hooks
HookStep ==
    /\ ctl.op = "Analyze"
    /\ ctl.stage = "hooks"
    /\ ctl.k <= Len(ctl.file[ctl.comp].Hooks)
    /\ patterns' = hookLoopBody(ctl.file[ctl.comp].Hooks[ctl.k], patterns)
    /\ ctl' = [ctl EXCEPT !.k = @ + 1]
    /\ UNCHANGED <<pc, input, lex, exVars, parVars, runs>>

\* analyzeComponent returns
HookLoopExit ==
    /\ ctl.op = "Analyze"
    /\ ctl.stage = "hooks"
    /\ ctl.k > Len(ctl.file[ctl.comp].Hooks)
    /\ ctl' = [ctl EXCEPT !.stage = "comp", !.comp = @ + 1, !.k = 0]
    /\ UNCHANGED <<pc, input, lex, exVars, parVars, patterns, runs>>

\* Analyze: return d.patterns
ReturnAnalyze ==
    /\ ctl.op = "Analyze"
    /\ ctl.stage = "comp"
    /\ ctl.comp > Len(ctl.file)
    /\ runs' = Append(runs, [op |-> ctl.op, in |-> ctl.in, result |-> patterns])
    /\ ctl' = Idle
    /\ UNCHANGED <<pc, input, lex, exVars, parVars, patterns>>

NextDetect ==
    \/ BeginAnalyzeSource \/ DetectIdiom \/ ReturnAnalyzeSource
    \/ BeginAnalyze \/ AnalyzeComponent
    \/ StatePatternStep \/ StatePatternLoopExit
    \/ DerivedPatternStep \/ DerivedLoopExit
    \/ HookStep \/ HookLoopExit
    \/ ReturnAnalyze

SpecDetect == InitDetect /\ [][NextDetect]_vars

\* the records of pats with kind typ on line line
RecordsAt(pats, typ, line) ==
    {k \in 1..Len(pats) : pats[k].Type = typ /\ pats[k].Line = line}

\* C7: within an Analyze or AnalyzeSource invocation, and after it, the
\* detector's pattern list never holds two records with the same
\* (Type, Line) pair: a record whose pair is already present is not appended.
C7_NoDuplicatePairs ==
    \A i, j \in 1..Len(patterns) :
        (patterns[i].Type = patterns[j].Type /\ patterns[i].Line = patterns[j].Line)
            => i = j

\* the state variables of comp that the Tabs loop of analyzeStatePatterns
\* turns into a record
TabCandidates(comp) ==
    {n \in DOMAIN stateNames(comp) :
        /\ stateNames(comp)[n].InitType = TString
        /\ Contains(n, Chars("tab")) \/ Contains(n, Chars("selected"))}

\* the Tabs loop has gone over two candidates declared on one line, and the
\* list holds one Tabs record for that line
C7_Witness ==
    /\ ctl.op = "Analyze"
    /\ ctl.stage = "state"
    /\ ctl.loop = 1
    /\ ctl.todo = {}
    /\ \E n1, n2 \in TabCandidates(ctl.file[ctl.comp]) :
        /\ n1 # n2
        /\ stateNames(ctl.file[ctl.comp])[n1].LineNumber =
               stateNames(ctl.file[ctl.comp])[n2].LineNumber
        /\ Cardinality(RecordsAt(patterns, PatternTabs,
                                 stateNames(ctl.file[ctl.comp])[n1].LineNumber)) = 1

Triple(p) == <<p.Type, p.Line, p.Confidence>>

\* the multiset of (Type, Line, Confidence) triples of a record list
TripleBag(pats) ==
    [t \in {Triple(pats[k]) : k \in 1..Len(pats)} |->
        Cardinality({k \in 1..Len(pats) : Triple(pats[k]) = t})]

\* C8: any two invocations of AnalyzeSource (respectively Analyze) on the
\* same input return the same multiset of (Type, Line, Confidence) triples,
\* the first of them on a fresh Detector, the later ones on a Detector that
\* has already analysed the same or another input.
C8_SameTriples ==
    \A i, j \in 1..Len(runs) :
        (runs[i].op = runs[j].op /\ runs[i].in = runs[j].in)
            => TripleBag(runs[i].result) = TripleBag(runs[j].result)

\* the first and the third invocation had the same input, the second another
\* one; records were returned each time, and the first and third lists
\* differ although their triples agree
C8_Witness ==
    /\ Len(runs) = 3
    /\ runs[1].in = runs[3].in
    /\ runs[2].in # runs[1].in
    /\ runs[1].result # <<>>
    /\ runs[2].result # <<>>
    /\ runs[1].result # runs[3].result

\* C9: when Analyze is about to return, every String-kind state variable
\* whose name contains "filter", "search" or "query" has a Filter record at
\* its line, with confidence 0.95 if its component has a derived variable
\* with operation "filter" and 0.7 if it has none.
C9_FilterConfidence ==
    (ctl.op = "Analyze" /\ ctl.stage = "comp" /\ ctl.comp > Len(ctl.file)) =>
        \A c \in 1..Len(ctl.file) :
            \A v \in 1..Len(ctl.file[c].StateVars) :
                LET sv == ctl.file[c].StateVars[v]
                    name == ToLower(sv.Name)
                IN  (/\ sv.InitType = TString
                     /\ \/ Contains(name, Chars("filter"))
                        \/ Contains(name, Chars("search"))
                        \/ Contains(name, Chars("query")))
                    => \E k \in RecordsAt(patterns, PatternFilter, sv.LineNumber) :
                          patterns[k].Confidence =
                              IF \E d \in 1..Len(ctl.file[c].DerivedVars) :
                                     ctl.file[c].DerivedVars[d].Operation = "filter"
                              THEN 95 ELSE 70

\* the idioms of the raw-text strategy: ordered expression list, kind and
\* fixed confidence
RawIdioms ==
    <<[res |-> tabPatterns, Type |-> PatternTabs, Confidence |-> 80],
      [res |-> filterPatterns, Type |-> PatternFilter, Confidence |-> 70],
      [res |-> depPatterns, Type |-> PatternFormDeps, Confidence |-> 60],
      [res |-> modalPatterns, Type |-> PatternModal, Confidence |-> 70],
      [res |-> darkPatterns, Type |-> PatternDarkMode, Confidence |-> 90],
      [res |-> pagePatterns, Type |-> PatternPagination, Confidence |-> 75],
      [res |-> accPatterns, Type |-> PatternAccordion, Confidence |-> 75],
      [res |-> togglePatterns, Type |-> PatternToggle, Confidence |-> 70],
      [res |-> sortPatterns, Type |-> PatternSortableTable, Confidence |-> 75]>>

\* the line of the leftmost match of re in source
MatchLine(re, source) == 1 + CountNewlines(Slice(source, 0, Find(re, source).s))

AnalyzeSourceDone == ctl.op = "AnalyzeSource" /\ ctl.k > DetectCalls

\* C10: when AnalyzeSource is about to return, each idiom kind has exactly
\* one record if some expression of its list matches the text and none
\* otherwise; the record is on the line where the first listed matching
\* expression matches and carries the idiom's confidence; a text containing
\* role="tablist" has a Tabs record with confidence 0.8.
C10_OneRecordPerIdiom ==
    AnalyzeSourceDone =>
        /\ \A i \in 1..Len(RawIdioms) :
            LET hits == Matching(RawIdioms[i].res, ctl.source)
                recs == {k \in 1..Len(patterns) : patterns[k].Type = RawIdioms[i].Type}
            IN  IF hits = {} THEN recs = {}
                ELSE /\ Cardinality(recs) = 1
                     /\ \A k \in recs :
                         /\ patterns[k].Line =
                                MatchLine(RawIdioms[i].res[MinOf(hits)], ctl.source)
                         /\ patterns[k].Confidence = RawIdioms[i].Confidence
        /\ Contains(ctl.source, Chars("role=\"tablist\"")) =>
              \E k \in 1..Len(patterns) :
                  patterns[k].Type = PatternTabs /\ patterns[k].Confidence = 80

\* AnalyzeSource is about to return for a text in which aria-selected (third
\* of the Tabs list) is on line 1 and role="tablist" (first of the list) on
\* line 2: the Tabs record is on line 2, and no Accordion record exists
C10_Witness ==
    /\ AnalyzeSourceDone
    /\ Matching(tabPatterns, ctl.source) = {1, 3}
    /\ MatchLine(tabPatterns[3], ctl.source) = 1
    /\ \E k \in 1..Len(patterns) :
          patterns[k].Type = PatternTabs /\ patterns[k].Line = 2 /\ patterns[k].Confidence = 80
    /\ Matching(accPatterns, ctl.source) = {}
    /\ \A k \in 1..Len(patterns) : patterns[k].Type # PatternAccordion

\* Analyze is about to return d.patterns
AnalyzeDone == ctl.op = "Analyze" /\ ctl.stage = "comp" /\ ctl.comp > Len(ctl.file)

\* line lies in the line range of component c of the file under analysis
InComponent(line, c) ==
    /\ ctl.file[c].LineNumber <= line
    /\ c < Len(ctl.file) => line < ctl.file[c + 1].LineNumber

\* a record of idiom typ with confidence above conf, at a line of component c
HigherRecord(typ, conf, c) ==
    \E k \in 1..Len(patterns) :
        /\ patterns[k].Type = typ
        /\ patterns[k].Confidence > conf
        /\ InComponent(patterns[k].Line, c)

\* the standalone record of idiom typ with confidence conf for derived
\* variable dv is present exactly when component c has no higher record
StandaloneIff(dv, typ, conf, c) ==
    (\E k \in RecordsAt(patterns, typ, dv.LineNumber) :
        /\ patterns[k].Confidence = conf
        /\ patterns[k].DerivedVars = <<dv.Name>>)
    <=> ~HigherRecord(typ, conf, c)

\* C23: when Analyze is about to return, a derived variable with operation
\* "filter" (respectively "sort") has its standalone Filter record at 0.65
\* (respectively SortableTable record at 0.75) at its own line if and only
\* if its component has no higher-confidence record of that idiom; records
\* of other components do not suppress it.
C23_StandaloneUnlessHigher ==
    AnalyzeDone =>
        \A c \in 1..Len(ctl.file) :
            \A d \in 1..Len(ctl.file[c].DerivedVars) :
                LET dv == ctl.file[c].DerivedVars[d]
                IN  /\ dv.Operation = "filter"
                        => StandaloneIff(dv, PatternFilter, 65, c)
                    /\ dv.Operation = "sort"
                        => StandaloneIff(dv, PatternSortableTable, 75, c)

\* the records offered for state variable sv
RecordsOf(sv) ==
    {k \in 1..Len(patterns) :
        patterns[k].Line = sv.LineNumber /\ patterns[k].StateVars = <<sv.Name>>}

\* the bucket of a Bool-kind state variable, by its lower-cased name
BoolBucket(name) ==
    IF Contains(name, Chars("modal")) \/ Contains(name, Chars("dialog"))
    THEN [Type |-> PatternModal, Confidence |-> 85]
    ELSE IF \/ Contains(name, Chars("open")) \/ Contains(name, Chars("expanded"))
            \/ Contains(name, Chars("collapsed"))
    THEN [Type |-> PatternAccordion, Confidence |-> 75]
    ELSE [Type |-> PatternToggle, Confidence |-> 70]

\* C24: when Analyze is about to return, every Bool-kind state variable of
\* a component has exactly one record among Modal, Accordion and Toggle:
\* Modal at 0.85 if its lower-cased name contains "modal" or "dialog",
\* otherwise Accordion at 0.75 if it contains "open", "expanded" or
\* "collapsed", otherwise Toggle at 0.7.
C24_BoolInOneBucket ==
    AnalyzeDone =>
        \A c \in 1..Len(ctl.file) :
            \A v \in 1..Len(ctl.file[c].StateVars) :
                LET sv == ctl.file[c].StateVars[v]
                    mine == {k \in RecordsOf(sv) :
                                patterns[k].Type \in
                                    {PatternModal, PatternAccordion, PatternToggle}}
                IN  sv.InitType = TBool =>
                        /\ Cardinality(mine) = 1
                        /\ \A k \in mine :
                              /\ patterns[k].Type = BoolBucket(ToLower(sv.Name)).Type
                              /\ patterns[k].Confidence =
                                     BoolBucket(ToLower(sv.Name)).Confidence

\* component c holds a useState hook usage on the line of state variable sv
StateHookAt(c, sv) ==
    \E h \in 1..Len(ctl.file[c].Hooks) :
        /\ ctl.file[c].Hooks[h].Type = Chars("useState")
        /\ ctl.file[c].Hooks[h].LineNumber = sv.LineNumber

\* C25: when Analyze is about to return, every useState hook usage of a
\* component whose bound variable name contains "dark" or "theme" has a
\* DarkMode record with confidence 0.9 at the line of the hook usage.
C25_DarkModeFromHook ==
    AnalyzeDone =>
        \A c \in 1..Len(ctl.file) :
            \A v \in 1..Len(ctl.file[c].StateVars) :
                LET sv == ctl.file[c].StateVars[v]
                IN  (/\ StateHookAt(c, sv)
                     /\ \/ Contains(ToLower(sv.Name), Chars("dark"))
                        \/ Contains(ToLower(sv.Name), Chars("theme")))
                    => \E k \in RecordsAt(patterns, PatternDarkMode, sv.LineNumber) :
                          patterns[k].Confidence = 90

-----------------------------------------------------------------------------
(* Command-line runs: main's pattern detection, AnalyzeSource on the input  *)
(* text and then Analyze on its parse, on one Detector                      *)

InitMain ==
    /\ pc = "main"
    /\ input \in {FileSource(id) : id \in FileIds}
    /\ lex = NewLexer
    /\ stateVars = <<>>
    /\ derivedVars = <<>>
    /\ NoParser
    /\ NewDetector

\* main: detectedPatterns := detector.AnalyzeSource(input), entry
MainAnalyzeSource ==
    \E id \in FileIds :
        /\ pc = "main"
        /\ ctl.op = "idle"
        /\ runs = <<>>
        /\ FileSource(id) = input
        /\ patterns' = resetPatterns(patterns)
        /\ ctl' = [Idle EXCEPT !.op = "AnalyzeSource", !.stage = "detect", !.in = id,
                               !.source = input, !.k = 1]
        /\ UNCHANGED <<pc, input, lex, exVars, parVars, runs>>

\* main: parsedPatterns := detector.Analyze(result), entry; result is the
\* parse of the same input
MainAnalyze ==
    /\ pc = "main"
    /\ ctl.op = "idle"
    /\ Len(runs) = 1
    /\ patterns' = resetPatterns(patterns)
    /\ ctl' = [Idle EXCEPT !.op = "Analyze", !.stage = "comp", !.in = runs[1].in,
                           !.file = FileOf(runs[1].in), !.comp = 1]
    /\ UNCHANGED <<pc, input, lex, exVars, parVars, runs>>

\* main: detectedPatterns = append(detectedPatterns, parsedPatterns...)
MainAppend ==
    /\ pc = "main"
    /\ ctl.op = "idle"
    /\ Len(runs) = 2
    /\ runs' = Append(runs, [op |-> "main", in |-> runs[1].in,
                             result |-> runs[1].result \o runs[2].result])
    /\ pc' = "analyzed"
    /\ UNCHANGED <<input, lex, exVars, parVars, patterns, ctl>>

NextMain ==
    \/ MainAnalyzeSource \/ DetectIdiom \/ ReturnAnalyzeSource
    \/ MainAnalyze \/ AnalyzeComponent
    \/ StatePatternStep \/ StatePatternLoopExit
    \/ DerivedPatternStep \/ DerivedLoopExit
    \/ HookStep \/ HookLoopExit
    \/ ReturnAnalyze
    \/ MainAppend

SpecMain == InitMain /\ [][NextMain]_vars

\* the list main hands to printPatternAnalysis
detectedPatterns == runs[3].result

\* C11: in the list obtained by running AnalyzeSource and then Analyze over
\* one source unit on the same Detector, results concatenated, no two records
\* share the same (Type, Line) pair.
C11_NoDuplicateAcrossStrategies ==
    pc = "analyzed" =>
        \A i, j \in 1..Len(detectedPatterns) :
            (/\ detectedPatterns[i].Type = detectedPatterns[j].Type
             /\ detectedPatterns[i].Line = detectedPatterns[j].Line)
                => i = j

-----------------------------------------------------------------------------
(* Parser runs: Tokenize, NewParserWithSource, Parse.  A step is one        *)
(* iteration of a loop of the parser, or the stretch of code between two   *)
(* loops; calls are kept on the stack frames.                               *)

\* the call frame on top of the stack is one of function fn at stage stage
At(fn, stage) ==
    /\ pc = "extracted"
    /\ frames # <<>>
    /\ Top(frames).fn = fn
    /\ Top(frames).stage = stage

\* the parser in use and the frame on top
TopP == Top(parsers)
TopF == Top(frames)

\* main: NewParserWithSource(tokens, input).Parse(), up to the extraction
StartParse ==
    /\ pc = "lexed"
    /\ parsers' = <<NewParser(lex.tokens)>>
    /\ frames' = <<[fn |-> "Parse", stage |-> "loop", Imports |-> <<>>,
                    Components |-> <<>>]>>
    /\ pc' = "extract"
    /\ UNCHANGED <<input, lex, exVars, ret, result, detVars>>

\* Parse: the component list with the variables attached by line range
associate(comps, svs, dvs) ==
    LET lines == [k \in 1..Len(comps) |-> comps[k].LineNumber]
    IN  [k \in 1..Len(comps) |->
            [comps[k] EXCEPT
                !.StateVars = @ \o inComponent(svs, lines[k], findComponentEnd(lines, k)),
                !.DerivedVars = @ \o inComponent(dvs, lines[k], findComponentEnd(lines, k))]]

\* Parse: the top-level loop ends; variables are attached, the result returned
ParseReturn ==
    /\ At("Parse", "loop")
    /\ isAtEnd(skipWhitespace(TopP))
    /\ result' = [Imports |-> TopF.Imports,
                  Components |-> associate(TopF.Components, stateVars, derivedVars),
                  Warnings |-> skipWhitespace(TopP).warnings,
                  Suggestions |-> skipWhitespace(TopP).suggestions]
    /\ parsers' = SetTop(parsers, skipWhitespace(TopP))
    /\ frames' = <<>>
    /\ pc' = "parsed"
    /\ UNCHANGED <<input, lex, exVars, ret, detVars>>

\* Parse: an iteration that finds `import`; parseImport up to its loop over
\* the named imports, or to its end if there is none
ParseImport ==
    /\ At("Parse", "loop")
    /\ ~isAtEnd(skipWhitespace(TopP))
    /\ checkIdent(skipWhitespace(TopP), "import")
    /\ LET h == importHead(skipWhitespace(TopP))
           t == importTail(h.P, h.imp)
       IN  IF h.named
           THEN /\ parsers' = SetTop(parsers, h.P)
                /\ frames' = Append(frames, [fn |-> "parseImport", stage |-> "named",
                                             imp |-> h.imp])
           ELSE /\ parsers' = SetTop(parsers, t.P)
                /\ frames' = SetTop(frames, [TopF EXCEPT !.Imports = Append(@, t.imp)])
    /\ UNCHANGED <<pc, input, lex, exVars, ret, result, detVars>>

\* parseImport: one iteration of the loop over the named imports
ImportNamedStep ==
    /\ At("parseImport", "named")
    /\ ~isAtEnd(TopP)
    /\ ~check(TopP, "JSXExprClose")
    /\ LET r == importIteration(TopP, TopF.imp)
       IN  /\ parsers' = SetTop(parsers, r.P)
           /\ frames' = SetTop(frames, [TopF EXCEPT !.imp = r.imp])
    /\ UNCHANGED <<pc, input, lex, exVars, ret, result, detVars>>

\* parseImport: the loop is left; the rest of the statement, return to Parse
ImportReturn ==
    /\ At("parseImport", "named")
    /\ isAtEnd(TopP) \/ check(TopP, "JSXExprClose")
    /\ LET t == importTail(match(TopP, "JSXExprClose"), TopF.imp)
           caller == frames[Len(frames) - 1]
       IN  /\ parsers' = SetTop(parsers, t.P)
           /\ frames' = SetTop(Pop(frames), [caller EXCEPT !.Imports = Append(@, t.imp)])
    /\ UNCHANGED <<pc, input, lex, exVars, ret, result, detVars>>

BodyFrame(comp) ==
    [fn |-> "parseComponentBody", stage |-> "loop", comp |-> comp, depth |-> 0]

\* Parse: an iteration that finds `function`, `const` or `export`;
\* parseComponent up to the loop of parseProps or of parseComponentBody
ParseComponent ==
    /\ At("Parse", "loop")
    /\ ~isAtEnd(skipWhitespace(TopP))
    /\ ~checkIdent(skipWhitespace(TopP), "import")
    /\ \/ checkIdent(skipWhitespace(TopP), "function")
       \/ checkIdent(skipWhitespace(TopP), "const")
       \/ checkIdent(skipWhitespace(TopP), "export")
    /\ LET h == componentHead(skipWhitespace(TopP))
       IN  /\ parsers' = SetTop(parsers, h.P)
           /\ frames' =
                CASE h.to = "nil" -> frames
                  [] h.to = "props" ->
                        Append(frames, [fn |-> "parseProps", stage |-> "loop",
                                        comp |-> h.comp, isArrow |-> h.isArrow,
                                        props |-> <<>>])
                  [] h.to = "body" -> Append(frames, BodyFrame(h.comp))
    /\ UNCHANGED <<pc, input, lex, exVars, ret, result, detVars>>

\* Parse: an iteration that skips an unknown token
ParseSkip ==
    /\ At("Parse", "loop")
    /\ ~isAtEnd(skipWhitespace(TopP))
    /\ ~checkIdent(skipWhitespace(TopP), "import")
    /\ ~checkIdent(skipWhitespace(TopP), "function")
    /\ ~checkIdent(skipWhitespace(TopP), "const")
    /\ ~checkIdent(skipWhitespace(TopP), "export")
    /\ parsers' = SetTop(parsers, advance(skipWhitespace(TopP)))
    /\ UNCHANGED <<pc, input, lex, exVars, frames, ret, result, detVars>>

\* parseProps: one iteration of the loop over the destructured list
PropsStep ==
    /\ At("parseProps", "loop")
    /\ ~isAtEnd(TopP)
    /\ ~check(TopP, "JSXExprClose")
    /\ LET r == propsIteration(TopP, TopF.props)
       IN  /\ parsers' = SetTop(parsers, r.P)
           /\ frames' = SetTop(frames, [TopF EXCEPT !.props = r.props])
    /\ UNCHANGED <<pc, input, lex, exVars, ret, result, detVars>>

\* parseProps: the loop is left and parseProps returns; parseComponent goes
\* on up to the loop of parseComponentBody
PropsReturn ==
    /\ At("parseProps", "loop")
    /\ isAtEnd(TopP) \/ check(TopP, "JSXExprClose")
    /\ parsers' = SetTop(parsers, componentTail(match(TopP, "JSXExprClose"),
                                                TopF.isArrow, TRUE))
    /\ frames' = SetTop(frames, BodyFrame([TopF.comp EXCEPT !.Props = TopF.props]))
    /\ UNCHANGED <<pc, input, lex, exVars, ret, result, detVars>>

\* parseComponentBody: the depth after the current token has been counted
bodyDepth ==
    TopF.depth + (IF check(TopP, "JSXExprOpen") THEN 1 ELSE 0)
               - (IF check(TopP, "JSXExprClose") THEN 1 ELSE 0)

\* parseComponentBody: the parser and hooks after detectHook on the current
\* token
bodyHooks ==
    IF check(TopP, "Ident")
    THEN detectHook(TopP, current(TopP).value, TopF.comp.Hooks)
    ELSE [P |-> TopP, hooks |-> TopF.comp.Hooks]

\* parseComponentBody: the parser after `return`, blanks and `(`
afterReturn ==
    LET P1 == skipWhitespace(advance(bodyHooks.P))
    IN  IF check(P1, "LParen") THEN skipWhitespace(advance(P1)) ELSE P1

\* parseComponentBody: the current token is `return` and a tag follows
returnsJSX == checkIdent(TopP, "return") /\ check(afterReturn, "TagOpen")

\* parseComponentBody: one iteration of the loop that does not leave it
BodyStep ==
    /\ At("parseComponentBody", "loop")
    /\ ~isAtEnd(TopP)
    /\ bodyDepth >= 0
    /\ ~returnsJSX
    /\ parsers' = SetTop(parsers, advance(IF checkIdent(TopP, "return")
                                          THEN afterReturn ELSE bodyHooks.P))
    /\ frames' = SetTop(frames, [TopF EXCEPT !.depth = bodyDepth,
                                             !.comp.Hooks = bodyHooks.hooks])
    /\ UNCHANGED <<pc, input, lex, exVars, ret, result, detVars>>

\* the call p.parseNode() made by the frame on top, which waits for the Node
Called(r, waiting) ==
    /\ parsers' = SetTop(parsers, r.P)
    /\ frames' = SetTop(frames, waiting) \o r.push
    /\ ret' = r.ret

CallParseNode(P, waiting) == Called(parseNode(P), waiting)

\* parseComponentBody: the iteration that finds `return` before a tag and
\* calls parseNode
BodyReturnJSX ==
    /\ At("parseComponentBody", "loop")
    /\ ~isAtEnd(TopP)
    /\ bodyDepth >= 0
    /\ returnsJSX
    /\ CallParseNode(afterReturn, [TopF EXCEPT !.stage = "await", !.depth = bodyDepth,
                                               !.comp.Hooks = bodyHooks.hooks])
    /\ UNCHANGED <<pc, input, lex, exVars, result, detVars>>

\* parseComponent returns comp to Parse, which appends it
returnComponent(comp) ==
    LET caller == frames[Len(frames) - 1]
    IN  frames' = SetTop(Pop(frames), [caller EXCEPT !.Components = Append(@, comp)])

\* parseComponentBody: the loop ends without a tag tree; the Body is nil
BodyExit ==
    /\ At("parseComponentBody", "loop")
    /\ isAtEnd(TopP) \/ bodyDepth < 0
    /\ returnComponent(TopF.comp)
    /\ UNCHANGED <<pc, input, lex, exVars, parsers, ret, result, detVars>>

\* parseComponentBody returns the Node parseNode returned
ComponentReturn ==
    /\ At("parseComponentBody", "await")
    /\ returnComponent([TopF.comp EXCEPT !.Body = ret])
    /\ ret' = Nil
    /\ UNCHANGED <<pc, input, lex, exVars, parsers, result, detVars>>

\* the function on top of the stack returns node to its caller
Return(node) ==
    /\ frames' = Pop(frames)
    /\ ret' = node

\* parseElement: the attribute loop takes another iteration that does not
\* break
moreAttributes ==
    /\ ~isAtEnd(TopP)
    /\ ~check(TopP, "TagClose")
    /\ ~check(TopP, "TagSelfClose")
    /\ ~check(skipWhitespace(TopP), "TagClose")
    /\ ~check(skipWhitespace(TopP), "TagSelfClose")

\* parseElement: one iteration of the attribute loop
AttrStep ==
    /\ At("parseElement", "attrs")
    /\ moreAttributes
    /\ LET r == parseAttribute(skipWhitespace(TopP))
       IN  /\ parsers' = SetTop(parsers, r.P)
           /\ frames' = SetTop(frames,
                  IF r.attr = Nil THEN TopF
                  ELSE [TopF EXCEPT !.node.Attributes = Append(@, r.attr)])
    /\ UNCHANGED <<pc, input, lex, exVars, ret, result, detVars>>

\* parseElement: the attribute loop is left; the end of the opening tag
ElementOpenEnd ==
    /\ At("parseElement", "attrs")
    /\ ~moreAttributes
    /\ LET P == skipWhitespace(TopP)
       IN  IF check(P, "TagSelfClose")
           THEN /\ parsers' = SetTop(parsers, advance(P))
                /\ Return([TopF.node EXCEPT !.SelfClose = TRUE])
           ELSE IF ~check(P, "TagClose")
           THEN /\ parsers' = SetTop(parsers,
                                     addWarning(P, Chars("Expected > to close tag")))
                /\ Return(TopF.node)
           ELSE /\ parsers' = SetTop(parsers, advance(P))
                /\ frames' = SetTop(frames, [TopF EXCEPT !.stage = "children"])
                /\ ret' = ret
    /\ UNCHANGED <<pc, input, lex, exVars, result, detVars>>

\* the child loops of parseElement and parseFragment take another iteration
\* that calls parseNode
moreChildren ==
    /\ ~isAtEnd(TopP)
    /\ ~check(skipNonSignificantWhitespace(TopP), "TagEnd")

\* parseElement: an iteration of the child loop, up to the call of parseNode
ChildStep ==
    /\ At("parseElement", "children")
    /\ moreChildren
    /\ CallParseNode(skipNonSignificantWhitespace(TopP),
                     [TopF EXCEPT !.stage = "await"])
    /\ UNCHANGED <<pc, input, lex, exVars, result, detVars>>

\* parseElement: parseNode has returned; the child is appended, or the loop
\* is left if it is nil
ChildReturn ==
    /\ At("parseElement", "await")
    /\ frames' = SetTop(frames,
          IF ret = Nil THEN [TopF EXCEPT !.stage = "closing"]
          ELSE [TopF EXCEPT !.stage = "children", !.node.Children = Append(@, ret)])
    /\ ret' = Nil
    /\ UNCHANGED <<pc, input, lex, exVars, parsers, result, detVars>>

\* the closing tag consumed without a warning when the names differ
closingTag_Silent(P0, tagName) ==
    LET P1 == skipWhitespace(advance(P0))
        P3 == IF ~check(P1, "Ident") THEN P1 ELSE advance(P1)
    IN  IF check(P0, "TagEnd") THEN match(skipWhitespace(P3), "TagClose") ELSE P0

\* parseElement: the closing tag, [P, warned]
closingTag(P0, tagName) ==
    LET P1 == skipWhitespace(advance(P0))
        P2 == advance(P1)
        P3 == IF ~check(P1, "Ident") THEN P1
              ELSE IF current(P1).value = tagName THEN P2
              ELSE addWarning(P2, Chars("Mismatched closing tag: expected </") \o tagName
                                      \o Chars(">, got </") \o current(P1).value
                                      \o Chars(">"))
    IN  IF check(P0, "TagEnd") THEN match(skipWhitespace(P3), "TagClose") ELSE P0

\* parseElement: the child loop is left; the closing tag; return elem
ElementReturn ==
    /\ \/ At("parseElement", "closing")
       \/ At("parseElement", "children") /\ ~moreChildren
    /\ parsers' = SetTop(parsers,
          closingTag(IF TopF.stage = "children" /\ ~isAtEnd(TopP)
                     THEN skipNonSignificantWhitespace(TopP) ELSE TopP,
                     TopF.node.Tag))
    /\ Return(TopF.node)
    /\ UNCHANGED <<pc, input, lex, exVars, result, detVars>>

\* parseFragment: an iteration of the child loop, up to the call of parseNode
FragmentChildStep ==
    /\ At("parseFragment", "children")
    /\ moreChildren
    /\ CallParseNode(skipNonSignificantWhitespace(TopP),
                     [TopF EXCEPT !.stage = "await"])
    /\ UNCHANGED <<pc, input, lex, exVars, result, detVars>>

\* parseFragment: parseNode has returned; the child is appended, or the
\* loop is left and frag returned if it is nil
FragmentChildReturn ==
    /\ At("parseFragment", "await")
    /\ IF ret = Nil
       THEN Return(TopF.node)
       ELSE /\ frames' = SetTop(frames, [TopF EXCEPT !.stage = "children",
                                                     !.node.Children = Append(@, ret)])
            /\ ret' = Nil
    /\ UNCHANGED <<pc, input, lex, exVars, parsers, result, detVars>>

\* parseFragment: the loop ends at the closing </> or at the end of the
\* tokens; return frag
FragmentReturn ==
    /\ At("parseFragment", "children")
    /\ ~moreChildren
    /\ parsers' = SetTop(parsers,
          IF isAtEnd(TopP) THEN TopP
          ELSE match(skipWhitespace(advance(skipNonSignificantWhitespace(TopP))),
                     "TagClose"))
    /\ Return(TopF.node)
    /\ UNCHANGED <<pc, input, lex, exVars, result, detVars>>

\* analyzeExpression, ternary: the consequent or the alternate begins, as a
\* nested .map() analysis or with a new lexer
AnalyzePartStart ==
    /\ At("analyzeExpression", "start")
    /\ IF isMapExpression(TopF.texts[TopF.part])
       THEN /\ frames' = SetTop(frames, [TopF EXCEPT !.stage = "await"])
                           \o analyzeExpression([kind |-> "Expression",
                                                 Raw |-> TopF.texts[TopF.part],
                                                 LineNumber |-> TopF.node.LineNumber])
            /\ ret' = Nil
       ELSE /\ frames' = SetTop(frames, [TopF EXCEPT !.stage = "lex", !.l = NewLexer])
            /\ ret' = ret
    /\ UNCHANGED <<pc, input, lex, exVars, parsers, result, detVars>>

\* analyzeExpression: the nested lexer's Tokenize, one scanToken
NestedScanToken ==
    /\ At("analyzeExpression", "lex")
    /\ TopF.l.pos < Len(TopF.texts[TopF.part])
    /\ frames' = SetTop(frames,
                        [TopF EXCEPT !.l = scanToken(TopF.texts[TopF.part], TopF.l)])
    /\ UNCHANGED <<pc, input, lex, exVars, parsers, ret, result, detVars>>

\* the nested ParseJSX run on the parser of the caller instead of a new one
CalledNested_OnOuter(r) ==
    /\ parsers' = SetTop(parsers, r.P)
    /\ frames' = SetTop(frames, [TopF EXCEPT !.stage = "await", !.nested = TRUE]) \o r.push
    /\ ret' = r.ret

\* ParseJSX on a new parser has got as far as r
CalledNested(r) ==
    /\ parsers' = Append(parsers, r.P)
    /\ frames' = SetTop(frames, [TopF EXCEPT !.stage = "await", !.nested = TRUE]) \o r.push
    /\ ret' = r.ret

\* analyzeExpression: the nested Tokenize returns; NewParser(tokens) and its
\* ParseJSX up to the first loop
NestedParseJSX ==
    /\ At("analyzeExpression", "lex")
    /\ TopF.l.pos >= Len(TopF.texts[TopF.part])
    /\ CalledNested(parseNode(skipWhitespace(NewParser(emit(TopF.l, "EOF", <<>>).tokens))))
    /\ UNCHANGED <<pc, input, lex, exVars, result, detVars>>

\* analyzeExpression: the node under construction with part set to node
withPart(node, part, value) ==
    CASE part = "body" /\ node.kind = "MapExpr" -> [node EXCEPT !.Body = value]
      [] part = "body" /\ node.kind = "Conditional" -> [node EXCEPT !.Consequent = value]
      [] part = "consequent" -> [node EXCEPT !.Consequent = value]
      [] part = "alternate" -> [node EXCEPT !.Alternate = value]

\* analyzeExpression: a nested parse or analysis has returned; the nested
\* parser is dropped; on to the alternate of a ternary, or return the node
AnalyzePartReturn ==
    /\ At("analyzeExpression", "await")
    /\ parsers' = IF TopF.nested THEN Pop(parsers) ELSE parsers
    /\ IF TopF.part = "consequent"
       THEN /\ frames' = SetTop(frames,
                   [TopF EXCEPT !.node = withPart(@, TopF.part, ret),
                                !.part = "alternate", !.stage = "start",
                                !.nested = FALSE])
            /\ ret' = Nil
       ELSE Return(withPart(TopF.node, TopF.part, ret))
    /\ UNCHANGED <<pc, input, lex, exVars, result, detVars>>

MaxParseFrags == 2

\* the texts the parser is run on
ParseTexts ==
    <<Chars("function C({x}){ return <div>{x}</div>; }"),
      Chars("function T(){ return <p>{a ? <X/> : b ? <Y/> : <Z/>}</p>; }"),
      Chars("import React, { useState as s, useMemo } from 'react'\nimport x from \"y\""),
      Chars("export default function App(props) {\n  const [n, setN] = useState(0);\n  return (\n    <>\n      <h1 id=\"t\" {...props} hidden>Hi</h1>\n      {ok && <b onClick={() => setN(n + 1)}>go</b>}\n    </>\n  );\n}"),
      Chars("const List = ({items = [], title = 'x'}) => {\n  return <ul>{items.map((it, i) => (<li>{it}</li>))}</ul>;\n}\nconst helper = 1;\nfunction Empty() { }"),
      Chars("function U() { return <a>{c ? rows.map(r => <i/>) : (<u></v>)}</a> }"),
      Chars("function V() { return <div {x}></div>; }"),
      Chars("function W({a: b}) { return <i/>; }"),
      Chars("import { * } from 'm'"),
      Chars("function Z() { return <td colspan=2 < }"),
      Chars("function Empty() { }\nfunction G() { return <p/>; }"),
      Chars("function M() { return <div id=\"a\"><b>t</i> u</div>; }"),
      Chars("function N1(){ return <p>{a ? b ? <X/> : <Y/> : <Z/>}</p>; }"),
      Chars("function N2(){ return <p>{a ? (b ? <X/> : <Y/>) : <Z/>}</p>; }"),
      Chars("function N3(){ return <p>{x ? [y ? 1 : 2] : 3}</p>; }"),
      Chars("function N4(){ return <p>{{[a ? b ? 1 : 2 : 3]: v}}</p>; }"),
      Chars("function N5(){ return <p>{a && b ? c ? <X/> : <Y/> : <Z/>}</p>; }"),
      Chars("const [g, setG] = useState(0);\nfunction P() {\n  const [a, setA] = useState(1);\n  return <p/>;\n}\nfunction Q() {\n  const [b, setB] = useState(2);\n  const d = rows.filter(f);\n  return <q/>;\n}"),
      Chars("function K() { return <p>{ok && <a b=\"c\">t</a>}</p>; }"),
      Chars("function L() { return <p>{cond && <a></b>}</p>; }"),
      Chars("function G1(){ return <p>{a ? (b && <X/>) : <Y/>}{a && b ? <X/> : <Y/>}</p>; }")>>

\* the pieces further texts are put together from
ParseFrags ==
    <<Chars("<a b=\"c\">"), Chars("</a>"), Chars("{x}"), Chars("t "), Chars("<>"),
      Chars("function F() { return "), Chars("}")>>

ParseInputs ==
    {ParseTexts[k] : k \in 1..Len(ParseTexts)} \cup
    {Flatten([k \in 1..Len(fs) |-> ParseFrags[fs[k]]]) :
        fs \in SeqsUpTo(1..Len(ParseFrags), MaxParseFrags)}

InitParse ==
    /\ input \in ParseInputs
    /\ lex = NewLexer
    /\ pc = "lexing"
    /\ stateVars = <<>>
    /\ derivedVars = <<>>
    /\ NoParser
    /\ NewDetector

NextParse ==
    \/ ScanToken \/ EmitEOF \/ StartParse \/ ExtractState \/ ExtractDerived
    \/ ParseImport \/ ImportNamedStep \/ ImportReturn
    \/ ParseComponent \/ ParseSkip \/ ParseReturn
    \/ PropsStep \/ PropsReturn
    \/ BodyStep \/ BodyReturnJSX \/ BodyExit \/ ComponentReturn
    \/ AttrStep \/ ElementOpenEnd \/ ChildStep \/ ChildReturn \/ ElementReturn
    \/ FragmentChildStep \/ FragmentChildReturn \/ FragmentReturn
    \/ AnalyzePartStart \/ NestedScanToken \/ NestedParseJSX \/ AnalyzePartReturn

SpecParse == InitParse /\ [][NextParse]_vars

-----------------------------------------------------------------------------
(* Parser claims                                                            *)

\* C1: Parse and ParseJSX terminate on every token sequence Tokenize can
\* produce: from any input text the parser eventually returns a result; no
\* loop iterates forever without advancing the cursor.

\* an iteration of the attribute loop of parseElement, of the loop of
\* parseProps or of the named-import loop of parseImport that leaves the
\* parser, cursor included, as it found it: the loop condition holds again
\* and the same iteration repeats without end
attributeLoopStuck ==
    /\ At("parseElement", "attrs")
    /\ moreAttributes
    /\ parseAttribute(skipWhitespace(TopP)) = [P |-> TopP, attr |-> Nil]

propsLoopStuck ==
    /\ At("parseProps", "loop")
    /\ ~isAtEnd(TopP)
    /\ ~check(TopP, "JSXExprClose")
    /\ propsIteration(TopP, TopF.props) = [P |-> TopP, props |-> TopF.props]

importLoopStuck ==
    /\ At("parseImport", "named")
    /\ ~isAtEnd(TopP)
    /\ ~check(TopP, "JSXExprClose")
    /\ importIteration(TopP, TopF.imp) = [P |-> TopP, imp |-> TopF.imp]

C1_EveryIterationAdvances ==
    ~(IF pc = "extracted" /\ frames # <<>>
      THEN attributeLoopStuck \/ propsLoopStuck \/ importLoopStuck
      ELSE FALSE)

C3_Input == Chars("function C({x}){ return <div>{x}</div>; }")

\* C3: parsing function C({x}){ return <div>{x}</div>; } yields exactly one
\* Component, named C, with exactly one parameter x, whose Body is an Element
\* with tag div whose only child is an Expression node with Raw text x.
C3_ParsesComponent ==
    (pc = "parsed" /\ input = C3_Input) =>
        /\ Len(result.Components) = 1
        /\ result.Components[1].Name = Chars("C")
        /\ Len(result.Components[1].Props) = 1
        /\ result.Components[1].Props[1].Name = Chars("x")
        /\ result.Components[1].Body # Nil
        /\ result.Components[1].Body.kind = "Element"
        /\ result.Components[1].Body.Tag = Chars("div")
        /\ Len(result.Components[1].Body.Children) = 1
        /\ result.Components[1].Body.Children[1].kind = "Expression"
        /\ result.Components[1].Body.Children[1].Raw = Chars("x")

C3_Witness == pc = "parsed" /\ input = C3_Input /\ Len(result.Components) = 1

C4_Raw == Chars("a ? <X/> : b ? <Y/> : <Z/>")

\* the calls of analyzeExpression on the text of C4 that are on the stack
C4_Calls ==
    {k \in 1..Len(frames) :
        frames[k].fn = "analyzeExpression" /\ frames[k].raw = C4_Raw}

\* C4: on the expression text a ? <X/> : b ? <Y/> : <Z/> analyzeExpression
\* splits at the first top-level colon: it builds a Ternary with condition a,
\* its consequent is parsed again from exactly <X/> and its alternate from
\* exactly the remainder b ? <Y/> : <Z/>.
C4_TernarySplit ==
    \A k \in C4_Calls :
        /\ frames[k].kind = "ternary"
        /\ frames[k].node.kind = "Ternary"
        /\ frames[k].node.Condition = Chars("a")
        /\ frames[k].texts.consequent = Chars("<X/>")
        /\ frames[k].texts.alternate = Chars("b ? <Y/> : <Z/>")
        /\ frames[k].nested =>
              /\ frames[k].l.pos = Len(frames[k].texts[frames[k].part])
              /\ Flatten([j \in 1..Len(frames[k].l.tokens) |-> frames[k].l.tokens[j].value])
                    = frames[k].texts[frames[k].part]
        /\ frames[k].part = "alternate" =>
              /\ frames[k].node.Consequent # Nil
              /\ frames[k].node.Consequent.kind = "Element"
              /\ frames[k].node.Consequent.Tag = Chars("X")

\* the alternate of the ternary of C4 has been tokenized for its parse
C4_Witness ==
    \E k \in C4_Calls :
        /\ frames[k].part = "alternate"
        /\ frames[k].nested
        /\ frames[k].texts.alternate = Chars("b ? <Y/> : <Z/>")

\* the analyzeExpression frames below frame k that have a nested parser
NestedBelow(k) ==
    {j \in 1..(k - 1) : frames[j].fn = "analyzeExpression" /\ frames[j].nested}

\* the parser that called the analyzeExpression of frame k: the one of the
\* input, or the nested one of the innermost enclosing analyzeExpression
OuterIndex(k) == 1 + Cardinality(NestedBelow(k))

\* the tokens that parser was made with
OuterTokens(k) ==
    IF NestedBelow(k) = {} THEN lex.tokens
    ELSE Tokenize(frames[MaxOf(NestedBelow(k))].texts[frames[MaxOf(NestedBelow(k))].part])

\* the number of tokens of kind typ among toks[a..b]
Braces(toks, a, b, typ) == Cardinality({i \in a..b : toks[i].type = typ})

\* toks[a..b] closes every brace it opens and no other
Balanced(toks, a, b) ==
    /\ Braces(toks, a, b, "JSXExprOpen") = Braces(toks, a, b, "JSXExprClose")
    /\ \A m \in a..b :
          Braces(toks, a, m, "JSXExprClose") <= Braces(toks, a, m, "JSXExprOpen")

\* the token indices of the brace that closes the one opened at index o
MatchingClose(toks, o) ==
    {j \in (o + 1)..Len(toks) :
        toks[j].type = "JSXExprClose" /\ Balanced(toks, o + 1, j - 1)}

\* the text of toks[a..b]
TokenText(toks, a, b) == Flatten([i \in 1..(b - a + 1) |-> toks[a + i - 1].value])

\* the cursor of P is at the token that follows the closing brace of an
\* expression with text raw (at the end of the tokens if it is not closed)
AfterExpression(P, raw) ==
    \E o \in 1..Len(P.tokens) :
        /\ P.tokens[o].type = "JSXExprOpen"
        /\ IF MatchingClose(P.tokens, o) # {}
           THEN \E j \in MatchingClose(P.tokens, o) :
                   /\ P.pos = j
                   /\ TrimSpace(TokenText(P.tokens, o + 1, j - 1)) = raw
           ELSE /\ isAtEnd(P)
                /\ TrimSpace(TokenText(P.tokens, o + 1, P.pos)) = raw

\* frame k is an analyzeExpression called by parseExpression
FromParseExpression(k) ==
    /\ frames[k].fn = "analyzeExpression"
    /\ k > 1
    /\ ~(frames[k - 1].fn = "analyzeExpression" /\ ~frames[k - 1].nested)

\* C15: while analyzeExpression runs, nested parses included, the parser
\* that called it keeps its token buffer and its cursor, which stays at the
\* token following the closing brace of the expression; each nested body is
\* parsed by a parser of its own over the tokens of the extracted text; and
\* when parseExpression has returned the recognised node the cursor is still
\* there.
C15_OuterParserUntouched ==
    /\ \A k \in 1..Len(frames) :
          frames[k].fn = "analyzeExpression" =>
              /\ parsers[OuterIndex(k)].tokens = OuterTokens(k)
              /\ FromParseExpression(k) =>
                    AfterExpression(parsers[OuterIndex(k)], frames[k].raw)
              /\ frames[k].nested =>
                    parsers[OuterIndex(k) + 1].tokens =
                        Tokenize(frames[k].texts[frames[k].part])
    /\ (/\ pc = "extracted"
        /\ frames # <<>>
        /\ TopF.fn \in {"parseElement", "parseFragment", "parseComponentBody"}
        /\ TopF.stage = "await"
        /\ ret.kind \in {"MapExpr", "Conditional", "Ternary"})
          => \E raw \in {TrimSpace(TokenText(TopP.tokens, a, b)) :
                            a, b \in 1..Len(TopP.tokens)} :
                /\ AfterExpression(TopP, raw)
                /\ analyzeExpression([kind |-> "Expression", Raw |-> raw,
                                      LineNumber |-> ret.LineNumber]) # <<>>

\* the nested parser of the body of a .map() has moved over tokens of its
\* own while the parser of the input waits behind the closing brace
C15_Witness ==
    \E k \in 1..Len(frames) :
        /\ frames[k].fn = "analyzeExpression"
        /\ frames[k].kind = "map"
        /\ frames[k].nested
        /\ OuterIndex(k) = 1
        /\ parsers[2].pos > 0
        /\ parsers[1].tokens[parsers[1].pos].type = "JSXExprClose"

C16_Input == Chars("function Empty() { }\nfunction G() { return <p/>; }")

\* C16: a component whose own body holds no `return` followed by a tag tree
\* has a null Body in the File, whatever follows it in the source: in
\* `function Empty() { }` followed by a component G that returns <p/>, the
\* File has a component Empty and its Body is nil.
C16_NoReturnNullBody ==
    (pc = "parsed" /\ input = C16_Input) =>
        /\ \E k \in 1..Len(result.Components) :
              result.Components[k].Name = Chars("Empty")
        /\ \A k \in 1..Len(result.Components) :
              result.Components[k].Name = Chars("Empty")
                  => result.Components[k].Body = Nil

C18_Input == Chars("function M() { return <div id=\"a\"><b>t</i> u</div>; }")

\* parseElement is about to read its closing tag: the parser at that point
closingAt ==
    IF TopF.stage = "children" /\ ~isAtEnd(TopP)
    THEN skipNonSignificantWhitespace(TopP) ELSE TopP

\* parseElement is at an end tag whose name differs from the start tag's
atMismatchedEndTag ==
    /\ pc = "extracted"
    /\ frames # <<>>
    /\ TopF.fn = "parseElement"
    /\ \/ TopF.stage = "closing"
       \/ TopF.stage = "children" /\ ~moreChildren
    /\ check(closingAt, "TagEnd")
    /\ check(skipWhitespace(advance(closingAt)), "Ident")
    /\ current(skipWhitespace(advance(closingAt))).value # TopF.node.Tag

\* the cursor position after the end tag whose name is at position q
afterEndTag(P, q) ==
    LET a == skipWhitespace([P EXCEPT !.pos = q + 1]).pos
    IN  IF tokenAt(P, a).type = "TagClose" THEN a + 1 ELSE a

\* the step of parseElement over a mismatched end tag: one warning more, the
\* element returned as parsed so far, the cursor behind the end tag
mismatchStep ==
    atMismatchedEndTag =>
        LET name == skipWhitespace(advance(closingAt))
        IN  /\ frames' = Pop(frames)
            /\ ret' = TopF.node
            /\ ret'.kind = "Element"
            /\ Len(parsers') = Len(parsers)
            /\ Top(parsers').tokens = TopP.tokens
            /\ Len(Top(parsers').warnings) = Len(TopP.warnings) + 1
            /\ SubSeq(Top(parsers').warnings, 1, Len(TopP.warnings)) = TopP.warnings
            /\ Top(Top(parsers').warnings).Message =
                   Chars("Mismatched closing tag: expected </") \o TopF.node.Tag
                       \o Chars(">, got </") \o current(name).value \o Chars(">")
            /\ Top(parsers').pos = afterEndTag(TopP, name.pos)

\* the Element of <b>t</i> as parsed
C18_Inner ==
    [kind |-> "Element", Tag |-> Chars("b"), Attributes |-> <<>>, SelfClose |-> FALSE,
     Children |-> <<[kind |-> "Text", Content |-> Chars("t"), LineNumber |-> 1]>>,
     LineNumber |-> 1]

\* C18: when an element's end-tag name differs from its start-tag name,
\* parseElement appends exactly one "Mismatched closing tag" Warning and
\* still returns the element with its start-tag name, the attributes
\* collected and the children parsed so far; the end tag is consumed and
\* parsing continues after it: <div id="a"><b>t</i> u</div> gives a div with
\* the children b and the text u, and one warning.
C18_MismatchIsWarning ==
    /\ [][mismatchStep]_vars
    /\ [](  (pc = "parsed" /\ input = C18_Input) =>
              /\ Len(result.Warnings) = 1
              /\ Len(result.Components) = 1
              /\ result.Components[1].Body.Tag = Chars("div")
              /\ Len(result.Components[1].Body.Attributes) = 1
              /\ Len(result.Components[1].Body.Children) = 2
              /\ result.Components[1].Body.Children[1] = C18_Inner
              /\ result.Components[1].Body.Children[2].kind = "Text"
              /\ result.Components[1].Body.Children[2].Content = Chars("u"))

\* parseElement has returned the element b over the end tag </i>: the
\* parser holds the warning and its cursor is behind the end tag
C18_Witness ==
    /\ pc = "extracted"
    /\ input = C18_Input
    /\ ret = C18_Inner
    /\ Len(TopP.warnings) = 1
    /\ TopP.tokens[TopP.pos].type = "TagClose"
    /\ TopP.tokens[TopP.pos - 1].value = Chars("i")

\* the offsets of s that hold ch
OffsetsOf(s, ch) == {i \in 0..(Len(s) - 1) : s[i + 1] = ch}

\* no prefix of s closes a bracket it has not opened
PrefixBalanced(s) ==
    \A i \in 1..Len(s) :
        CountIn(s, 0, i, {")", "]", "}"}) <= CountIn(s, 0, i, {"(", "[", "{"})

\* s closes every bracket it opens and no other
BracketBalanced(s) ==
    /\ PrefixBalanced(s)
    /\ CountIn(s, 0, Len(s), {")", "]", "}"}) = CountIn(s, 0, Len(s), {"(", "[", "{"})

\* the text after the leading condition of s and its `?`
AfterCondition(s) ==
    TrimLeftSet(SliceFrom(s, MinOf(OffsetsOf(s, "?")) + 1), SpaceChars)

\* a ternary nested in the consequent position: bracket-balanced text in
\* which a `?` occurs before the first `:` after the leading condition
NestedInConsequent(s) ==
    /\ BracketBalanced(s)
    /\ OffsetsOf(s, "?") # {}
    /\ MinOf(OffsetsOf(s, "?")) > 0
    /\ OffsetsOf(AfterCondition(s), ":") # {}
    /\ OffsetsOf(AfterCondition(s), "?") # {}
    /\ MinOf(OffsetsOf(AfterCondition(s), "?")) < MinOf(OffsetsOf(AfterCondition(s), ":"))

\* C19 as stated: for a ternary nested in the consequent position the colon
\* finder returns -1 and no Ternary node (nor any other recognised node) is
\* built: analyzeExpression never goes on with such a text.
C19_NestedConsequentNeverSplit ==
    \A k \in 1..Len(frames) :
        frames[k].fn = "analyzeExpression" => ~NestedInConsequent(frames[k].raw)

\* such a text whose part after the leading condition closes no bracket it
\* has not opened, and which holds neither `&&` nor `.map`
NestedInConsequentOnly(s) ==
    /\ NestedInConsequent(s)
    /\ PrefixBalanced(AfterCondition(s))
    /\ ~Contains(s, Chars("&&"))
    /\ ~Contains(s, Chars(".map"))

\* the Body of the only component of the result is an element whose only
\* child is the raw Expression with text raw
C19_KeptRaw(raw) ==
    /\ Len(result.Components) = 1
    /\ result.Components[1].Body.kind = "Element"
    /\ Len(result.Components[1].Body.Children) = 1
    /\ result.Components[1].Body.Children[1].kind = "Expression"
    /\ result.Components[1].Body.Children[1].Raw = Chars(raw)

\* C19 amended: for a ternary nested in the consequent position whose part
\* after the leading condition closes no bracket it has not opened, in a
\* text with neither `&&` nor `.map`, findTernaryColon returns -1, no
\* Ternary node is built and the expression is kept as a raw Expression
\* node, as for `a ? b ? <X/> : <Y/> : <Z/>`, `a ? (b ? <X/> : <Y/>) : <Z/>`
\* and `x ? [y ? 1 : 2] : 3`.
C19_NestedConsequentKeptRaw ==
    /\ \A k \in 1..Len(frames) :
          frames[k].fn = "analyzeExpression" => ~NestedInConsequentOnly(frames[k].raw)
    /\ (ret.kind = "Expression" /\ NestedInConsequentOnly(ret.Raw)) =>
          findTernaryColon(AfterCondition(ret.Raw)) = -1
    /\ pc = "parsed" =>
          /\ input = ParseTexts[13] => C19_KeptRaw("a ? b ? <X/> : <Y/> : <Z/>")
          /\ input = ParseTexts[14] => C19_KeptRaw("a ? (b ? <X/> : <Y/>) : <Z/>")
          /\ input = ParseTexts[15] => C19_KeptRaw("x ? [y ? 1 : 2] : 3")

\* parseExpression has returned the raw Expression of a ternary nested in
\* parentheses in the consequent position
C19_Witness ==
    /\ pc = "extracted"
    /\ frames # <<>>
    /\ TopF.fn = "parseElement"
    /\ TopF.stage = "await"
    /\ ret.kind = "Expression"
    /\ NestedInConsequentOnly(ret.Raw)
    /\ Contains(ret.Raw, Chars("("))


\* the components of the returned File that hold variable v in list field
Holders(field, v) ==
    {i \in 1..Len(result.Components) : InSeq(v, result.Components[i][field])}

\* line lies in the range of component i of the returned File: from its
\* declaration line up to, not including, that of the next component, or
\* up to the end of the file for the last one
InRange(line, i) ==
    /\ result.Components[i].LineNumber <= line
    /\ i < Len(result.Components) => line < result.Components[i + 1].LineNumber

\* the extracted variables vs are distributed by line range into field
Distributed(field, vs) ==
    /\ \A i \in 1..Len(result.Components) :
          /\ \A k \in 1..Len(vs) :
                i \in Holders(field, vs[k]) <=> InRange(vs[k].LineNumber, i)
          /\ \A k \in 1..Len(result.Components[i][field]) :
                InSeq(result.Components[i][field][k], vs)
    /\ \A k \in 1..Len(vs) :
          /\ Cardinality(Holders(field, vs[k])) <= 1
          /\ (\A i \in 1..Len(result.Components) :
                 vs[k].LineNumber < result.Components[i].LineNumber)
             => Holders(field, vs[k]) = {}

\* C22: after Parse, an extracted state or derived variable is attached to
\* component i exactly when its line lies in [line of component i, line of
\* component i+1), the last range extending to the end of the file; no
\* variable is attached to two components, and one declared before the
\* first component is attached to none.
C22_AttachedByLineRange ==
    pc = "parsed" =>
        /\ Distributed("StateVars", stateVars)
        /\ Distributed("DerivedVars", derivedVars)

\* Parse has returned two components, each holding a state variable, the
\* second a derived variable, with a state variable left out of both
C22_Witness ==
    /\ pc = "parsed"
    /\ Len(result.Components) = 2
    /\ result.Components[1].StateVars # <<>>
    /\ result.Components[2].StateVars # <<>>
    /\ result.Components[2].DerivedVars # <<>>
    /\ \E k \in 1..Len(stateVars) : Holders("StateVars", stateVars[k]) = {}


\* the Elements of the tree under node, each as [Tag, LineNumber, Attrs],
\* Attrs being the <<Name, Value>> pairs of its Attributes in order
RECURSIVE ElementsOf(_)
ElementsOf(node) ==
    CASE node.kind = "Element" ->
            {[Tag |-> node.Tag, LineNumber |-> node.LineNumber,
              Attrs |-> [k \in 1..Len(node.Attributes) |->
                            <<node.Attributes[k].Name, node.Attributes[k].Value>>]]}
            \cup UNION {ElementsOf(node.Children[k]) : k \in 1..Len(node.Children)}
      [] node.kind = "Fragment" ->
            UNION {ElementsOf(node.Children[k]) : k \in 1..Len(node.Children)}
      [] node.kind = "MapExpr" -> ElementsOf(node.Body)
      [] node.kind = "Conditional" -> ElementsOf(node.Consequent)
      [] node.kind = "Ternary" -> ElementsOf(node.Consequent) \cup ElementsOf(node.Alternate)
      [] OTHER -> {}

\* the Elements of the trees of the returned File
ResultElements ==
    UNION {ElementsOf(result.Components[i].Body) : i \in 1..Len(result.Components)}

\* the lines of the input on which `<` followed by tag name tag appears
TagLines(tag) == {LineOf(input, at) : at \in Occurrences(input, <<"<">> \o tag)}

\* C26: every Element of the tree returned by Parse, those of iteration,
\* guard and ternary bodies included, carries as LineNumber a line of the
\* original input on which its tag name appears.
C26_ElementLineIsSourceLine ==
    pc = "parsed" =>
        \A e \in ResultElements : e.LineNumber \in TagLines(e.Tag)


\* the opening tag `<a b="c">`
TagWithLiteral == Chars("<a b=\"c\">")

\* C27: the attribute b="c" of an element a is parsed into the Attribute
\* (Name b, Value c), and no other, whether the element lies inside a guard,
\* iteration or ternary body or outside any expression.
C27_LiteralAttributeKept ==
    pc = "parsed" =>
        \A e \in ResultElements :
            (/\ e.Tag = Chars("a")
             /\ Occurrences(input, Chars("<a")) = Occurrences(input, TagWithLiteral))
            => e.Attrs = <<<<Chars("b"), Chars("c")>>>>


\* the Message of the warning for end tag close met in element open
MismatchMessage(open, close) ==
    Chars("Mismatched closing tag: expected </") \o open \o Chars(">, got </")
        \o close \o Chars(">")

\* the mismatched tag pairs of the texts under study
MismatchedPairs == {<<Chars("u"), Chars("v")>>, <<Chars("a"), Chars("b")>>}

\* C28: the warning raised for a mismatched closing tag while an iteration,
\* guard or ternary body is re-parsed, as in {cond && <a></b>}, is in the
\* Warnings of the ParseResult that Parse returns.
C28_BodyWarningsReported ==
    pc = "parsed" =>
        \A pair \in MismatchedPairs :
            Contains(input, <<"<">> \o pair[1] \o Chars("></") \o pair[2] \o <<">">>)
            => \E k \in 1..Len(result.Warnings) :
                  result.Warnings[k].Message = MismatchMessage(pair[1], pair[2])


\* function\s+(\w+) | const\s+(\w+)\s*=
declarationRegex ==
    RAlt(<<RSeq(<<RLit("function"), RPlus(RS), RCap(1, RPlus(RW))>>),
           RSeq(<<RLit("const"), RPlus(RS), RCap(1, RPlus(RW)), RStar(RS), RCh("=")>>)>>)

\* a name parseComponent accepts as a component name
AcceptedName(name) == name[1] \notin Lower \/ HasPrefix(name, Chars("use"))

\* match m begins with no brace of the input left open before it
TopLevel(m) == CountIn(input, 0, m.s, {"{"}) <= CountIn(input, 0, m.s, {"}"})

\* the accepted names of the top-level declarations of the input, in
\* source order
DeclaredComponents ==
    SelectSeq(Groups(input, SelectSeq(FindAll(declarationRegex, input), TopLevel), 1),
              AcceptedName)

\* C29: every top-level declaration `function Name` or `const Name =` whose name is
\* accepted as a component name yields its own Component of the returned
\* File, in source order, whether or not the components declared before it
\* hold a `return` with a tag tree.
C29_EveryDeclarationIsComponent ==
    pc = "parsed" =>
        [i \in 1..Len(result.Components) |-> result.Components[i].Name]
            = DeclaredComponents


\* the offsets of s, after at least one character and on its first line,
\* at which `&&` occurs
GuardAnds(s) ==
    {j \in 1..Len(s) : HasPrefixAt(s, j, Chars("&&")) /\ ~Contains(Slice(s, 0, j), <<"\n">>)}

\* s does not start with an iteration and holds such an `&&`
GuardShaped(s) == GuardAnds(s) # {} /\ ~MatchAt(mapRegex, s, 0).ok

\* the text of s before its first such `&&`, without the space around it
BeforeFirstAnd(s) == TrimSpace(Slice(s, 0, MinOf(GuardAnds(s))))

\* child c of the Body of the only component is the guard with condition cond
GuardChild(c, cond) ==
    /\ Len(result.Components) = 1
    /\ result.Components[1].Body.Children[c].kind = "Conditional"
    /\ result.Components[1].Body.Children[c].Condition = Chars(cond)

\* C30: an expression text that does not start with an iteration and holds
\* `&&` on its first line after at least one character is recognised as a
\* guard whose condition is the text before the first `&&`, never as a
\* ternary and never left raw: `a ? (b && <X/>) : <Y/>` and
\* `a && b ? <X/> : <Y/>` give guards with conditions `a ? (b` and `a`.
C30_GuardBeforeTernary ==
    /\ \A k \in 1..Len(frames) :
          (frames[k].fn = "analyzeExpression" /\ GuardShaped(frames[k].raw)) =>
              /\ frames[k].kind = "and"
              /\ frames[k].node.kind = "Conditional"
              /\ frames[k].node.Condition = BeforeFirstAnd(frames[k].raw)
    /\ ret.kind = "Expression" => ~GuardShaped(ret.Raw)
    /\ ret.kind = "Ternary" =>
          \A k \in 1..Len(frames) :
              frames[k].fn = "analyzeExpression" => ~GuardShaped(frames[k].raw)
    /\ (pc = "parsed" /\ input = ParseTexts[21]) =>
          /\ GuardChild(1, "a ? (b")
          /\ GuardChild(2, "a")

\* analyzeExpression goes on with a guard for a text on which the ternary
\* expression matches too, with a colon to split at
C30_Witness ==
    \E k \in 1..Len(frames) :
        /\ frames[k].fn = "analyzeExpression"
        /\ frames[k].kind = "and"
        /\ GuardShaped(frames[k].raw)
        /\ MatchAt(ternaryRegex, frames[k].raw, 0).ok
        /\ findTernaryColon(SliceFrom(frames[k].raw,
                                      MatchAt(ternaryRegex, frames[k].raw, 0).e)) > 0

====
